---------------------------- MODULE Spec2Model ----------------------------
(***************************************************************************)
(* A model of the meal planner's rule engine (recommendations.py) and of   *)
(* the HTTP handlers of backend/main.py that call it or duplicate it.      *)
(*                                                                         *)
(* Python floats are IEEE-754 binary64 values and the code's results       *)
(* depend on their rounding (0.55 * 100 is 55.00000000000001), so the      *)
(* model carries its own binary64 arithmetic: a double is sgn * m * 2^e    *)
(* with the mantissa m an arbitrary-precision natural number, and every    *)
(* operation computes the exact result and rounds it to 53 bits, ties to   *)
(* even.  Subnormals, infinities and NaN are outside the model: no value   *)
(* of the modelled runs comes near the exponent range's ends.              *)
(*                                                                         *)
(* Python strings are TLA+ strings, read as sequences of characters, so    *)
(* that lower() and the substring tests are computed, not assumed.         *)
(***************************************************************************)
EXTENDS Integers, Sequences, FiniteSets, TLC

(***************************************************************************)
(* Arbitrary-precision naturals: little-endian sequences of 15-bit limbs,  *)
(* no high zero limb; <<>> is zero.  (TLC's integers are 32 bits wide.)    *)
(***************************************************************************)
Limb == 2^15

RECURSIVE NatToBig(_)
NatToBig(n) == IF n = 0 THEN <<>> ELSE <<n % Limb>> \o NatToBig(n \div Limb)

RECURSIVE BigToNat(_)
BigToNat(a) == IF a = <<>> THEN 0 ELSE Head(a) + Limb * BigToNat(Tail(a))

RECURSIVE BTrim(_)
BTrim(a) ==
    IF a = <<>> THEN a
    ELSE IF a[Len(a)] = 0 THEN BTrim(SubSeq(a, 1, Len(a) - 1)) ELSE a

RECURSIVE BCmpAt(_, _, _)
BCmpAt(a, b, i) ==
    IF i = 0 THEN 0
    ELSE IF a[i] < b[i] THEN -1
    ELSE IF a[i] > b[i] THEN 1
    ELSE BCmpAt(a, b, i - 1)

BCmp(a, b) ==
    IF Len(a) < Len(b) THEN -1
    ELSE IF Len(a) > Len(b) THEN 1
    ELSE BCmpAt(a, b, Len(a))

RECURSIVE BAddC(_, _, _)
BAddC(a, b, c) ==
    IF a = <<>> /\ b = <<>> THEN (IF c = 0 THEN <<>> ELSE <<c>>)
    ELSE LET x == IF a = <<>> THEN 0 ELSE Head(a)
             y == IF b = <<>> THEN 0 ELSE Head(b)
             s == x + y + c
         IN  <<s % Limb>> \o BAddC(IF a = <<>> THEN a ELSE Tail(a),
                                   IF b = <<>> THEN b ELSE Tail(b),
                                   s \div Limb)

BAdd(a, b) == BAddC(a, b, 0)

\* a - b for a >= b, before trimming
RECURSIVE BSubC(_, _, _)
BSubC(a, b, c) ==
    IF a = <<>> THEN <<>>
    ELSE LET y == IF b = <<>> THEN 0 ELSE Head(b)
             d == Head(a) - y - c
         IN  <<IF d < 0 THEN d + Limb ELSE d>>
             \o BSubC(Tail(a), IF b = <<>> THEN b ELSE Tail(b),
                      IF d < 0 THEN 1 ELSE 0)

BSub(a, b) == BTrim(BSubC(a, b, 0))

\* a * k + c for one limb k and a carry c < Limb
RECURSIVE BMulLimb(_, _, _)
BMulLimb(a, k, c) ==
    IF a = <<>> THEN (IF c = 0 THEN <<>> ELSE <<c>>)
    ELSE LET s == Head(a) * k + c
         IN  <<s % Limb>> \o BMulLimb(Tail(a), k, s \div Limb)

RECURSIVE BMul(_, _)
BMul(a, b) ==
    IF a = <<>> \/ b = <<>> THEN <<>>
    ELSE LET rest == BMul(a, Tail(b))
         IN  BAdd(BTrim(BMulLimb(a, Head(b), 0)),
                  IF rest = <<>> THEN rest ELSE <<0>> \o rest)

\* the limbs 1..i of floor(a / k) for one limb k, r the remainder carried down
RECURSIVE BDivLimbAt(_, _, _, _)
BDivLimbAt(a, k, i, r) ==
    IF i = 0 THEN <<>>
    ELSE LET t == r * Limb + a[i]
         IN  BDivLimbAt(a, k, i - 1, t % k) \o <<t \div k>>

BDivLimb(a, k) == BTrim(BDivLimbAt(a, k, Len(a), 0))

RECURSIVE BModLimbAt(_, _, _, _)
BModLimbAt(a, k, i, r) ==
    IF i = 0 THEN r ELSE BModLimbAt(a, k, i - 1, (r * Limb + a[i]) % k)

BModLimb(a, k) == BModLimbAt(a, k, Len(a), 0)

Zeros(n) == [i \in 1..n |-> 0]

\* a * 2^n
BShl(a, n) ==
    IF a = <<>> THEN a
    ELSE Zeros(n \div 15) \o BTrim(BMulLimb(a, 2^(n % 15), 0))

\* floor(a / 2^n)
BShr(a, n) ==
    IF Len(a) <= n \div 15 THEN <<>>
    ELSE BDivLimb(SubSeq(a, (n \div 15) + 1, Len(a)), 2^(n % 15))

\* a mod 2^n = 0
BLowZero(a, n) ==
    /\ \A i \in 1..(n \div 15) : i > Len(a) \/ a[i] = 0
    /\ (n \div 15) + 1 > Len(a) \/ a[(n \div 15) + 1] % (2^(n % 15)) = 0

RECURSIVE IntBitLen(_)
IntBitLen(n) == IF n = 0 THEN 0 ELSE 1 + IntBitLen(n \div 2)

BBitLen(a) == IF a = <<>> THEN 0 ELSE 15 * (Len(a) - 1) + IntBitLen(a[Len(a)])

\* bit i of a, the lowest being bit 0
BBit(a, i) ==
    IF (i \div 15) + 1 > Len(a) THEN 0
    ELSE (a[(i \div 15) + 1] \div (2^(i % 15))) % 2

\* schoolbook binary division, st = <<quotient, remainder>> so far: the k bits
\* of n from bit i down are brought down, one per step
RECURSIVE BDivBits(_, _, _, _, _)
BDivBits(n, d, i, k, st) ==
    IF k = 0 THEN st
    ELSE LET r2 == BMulLimb(st[2], 2, BBit(n, i))
         IN  IF BCmp(r2, d) >= 0
             THEN BDivBits(n, d, i - 1, k - 1,
                           <<BMulLimb(st[1], 2, 1), BSub(r2, d)>>)
             ELSE BDivBits(n, d, i - 1, k - 1, <<BMulLimb(st[1], 2, 0), r2>>)

\* the limbs j..1 of n are still to be brought down
RECURSIVE BDivLimbs(_, _, _, _)
BDivLimbs(n, d, j, st) ==
    IF j = 0 THEN st
    ELSE BDivLimbs(n, d, j - 1, BDivBits(n, d, 15 * j - 1, 15, st))

\* <<floor(n / d), n mod d>> for d # 0
BDivMod(n, d) ==
    IF Len(d) = 1
    THEN <<BDivLimb(n, d[1]), NatToBig(BModLimb(n, d[1]))>>
    ELSE BDivLimbs(n, d, Len(n), <<<<>>, <<>>>>)

(***************************************************************************)
(* IEEE-754 binary64.  A double is [sgn, m, e] with value sgn * m * 2^e,   *)
(* kept canonical: m odd, or m zero with sgn = 1 and e = 0.                *)
(***************************************************************************)
RECURSIVE IntTrailZeros(_)
IntTrailZeros(n) == IF n % 2 = 1 THEN 0 ELSE 1 + IntTrailZeros(n \div 2)

RECURSIVE BTrailZeros(_)
BTrailZeros(a) ==
    IF Head(a) = 0 THEN 15 + BTrailZeros(Tail(a)) ELSE IntTrailZeros(Head(a))

FZero == [sgn |-> 1, m |-> <<>>, e |-> 0]

FCanon(s, m, e) ==
    IF m = <<>> THEN FZero
    ELSE LET tz == BTrailZeros(m)
         IN  [sgn |-> s, m |-> BShr(m, tz), e |-> e + tz]

\* the double nearest to s * (n + f) * 2^e, where 0 < f < 1 if sticky and f = 0
\* if not: round to nearest, ties to even, on a 53-bit mantissa
FRound(s, n, e, sticky) ==
    LET len == BBitLen(n) IN
    IF len <= 53 THEN FCanon(s, n, e)
    ELSE LET sh   == len - 53
             q    == BShr(n, sh)
             half == BBit(n, sh - 1) = 1
             tie  == BLowZero(n, sh - 1) /\ ~sticky
             up   == half /\ (~tie \/ BBit(q, 0) = 1)
         IN  FCanon(s, IF up THEN BAdd(q, <<1>>) ELSE q, e + sh)

FromInt(n) == FCanon(IF n < 0 THEN -1 ELSE 1, NatToBig(IF n < 0 THEN -n ELSE n), 0)

FNeg(a) == IF a.m = <<>> THEN a ELSE [a EXCEPT !.sgn = -a.sgn]

FMul(a, b) == FRound(a.sgn * b.sgn, BMul(a.m, b.m), a.e + b.e, FALSE)

\* a / b for b # 0: 56 quotient bits or more, the remainder as the sticky bit
FDiv(a, b) ==
    IF a.m = <<>> THEN FZero
    ELSE LET d  == 56 + BBitLen(b.m) - BBitLen(a.m)
             k  == IF d > 0 THEN d ELSE 0
             qr == BDivMod(BShl(a.m, k), b.m)
         IN  FRound(a.sgn * b.sgn, qr[1], a.e - b.e - k, qr[2] # <<>>)

\* -1, 0, 1 as |a| is below, at or above |b|
FCmpMag(a, b) ==
    LET e == IF a.e < b.e THEN a.e ELSE b.e
    IN  BCmp(BShl(a.m, a.e - e), BShl(b.m, b.e - e))

FAdd(a, b) ==
    LET e  == IF a.e < b.e THEN a.e ELSE b.e
        x  == BShl(a.m, a.e - e)
        y  == BShl(b.m, b.e - e)
        c  == BCmp(x, y)
    IN  IF a.sgn = b.sgn THEN FRound(a.sgn, BAdd(x, y), e, FALSE)
        ELSE IF c = 0 THEN FZero
        ELSE IF c > 0 THEN FRound(a.sgn, BSub(x, y), e, FALSE)
        ELSE FRound(b.sgn, BSub(y, x), e, FALSE)

FSub(a, b) == FAdd(a, FNeg(b))

FLt(a, b) ==
    IF a.sgn # b.sgn THEN a.sgn < b.sgn
    ELSE IF a.sgn = 1 THEN FCmpMag(a, b) < 0 ELSE FCmpMag(a, b) > 0

FLe(a, b) == a = b \/ FLt(a, b)

\* the literal n/d of the source text: the double nearest to the decimal
Dec(n, d) == FDiv(FromInt(n), FromInt(d))

\* Python int(x): truncation toward zero
PyInt(x) ==
    x.sgn * BigToNat(IF x.e >= 0 THEN BShl(x.m, x.e) ELSE BShr(x.m, -x.e))

\* Python round(x): the nearest integer, ties to even
PyRound(x) ==
    IF x.e >= 0 THEN PyInt(x)
    ELSE LET fl   == BShr(x.m, -x.e)
             half == BBit(x.m, -x.e - 1) = 1
             tie  == BLowZero(x.m, -x.e - 1)
             up   == half /\ (~tie \/ BBit(fl, 0) = 1)
         IN  x.sgn * (BigToNat(fl) + IF up THEN 1 ELSE 0)

\* Python round(x, 1): the decimal with one digit nearest to x, ties to even,
\* and then the double nearest to that decimal
PyRound1(x) ==
    Dec(PyRound([sgn |-> x.sgn, m |-> BMulLimb(x.m, 10, 0), e |-> x.e]), 10)

(***************************************************************************)
(* Python strings: TLA+ strings, which are sequences of characters.         *)
(***************************************************************************)
Upper     == "ABCDEFGHIJKLMNOPQRSTUVWXYZ"
Lowercase == "abcdefghijklmnopqrstuvwxyz"

\* c is a string of one character
LowerChar(c) ==
    IF \E i \in 1..Len(Upper) : SubSeq(Upper, i, i) = c
    THEN LET i == CHOOSE i \in 1..Len(Upper) : SubSeq(Upper, i, i) = c
         IN  SubSeq(Lowercase, i, i)
    ELSE c

\* str.lower(), from character i on
RECURSIVE LowerFrom(_, _)
LowerFrom(s, i) ==
    IF i > Len(s) THEN "" ELSE LowerChar(SubSeq(s, i, i)) \o LowerFrom(s, i + 1)

\* str.lower()
Lower(s) == LowerFrom(s, 1)

\* t in s
Contains(s, t) == \E i \in 1..(Len(s) - Len(t) + 1) : SubSeq(s, i, i + Len(t) - 1) = t

\* re.search('k1|k2|...', s): some alternative occurs in s
ContainsAny(s, kws) == \E k \in kws : Contains(s, k)

(***************************************************************************)
(* Python values.  A dict entry or a nullable column is                    *)
(*   [k |-> "absent"]        the key is not in the dict,                   *)
(*   [k |-> "None"]          the value is None,                            *)
(*   [k |-> "val", v |-> x]  the value x.                                  *)
(* A call returns Ok(v) or raises: Raise("TypeError").                     *)
(***************************************************************************)
Absent == [k |-> "absent"]
None   == [k |-> "None"]
Val(x) == [k |-> "val", v |-> x]

Ok(v)    == [exc |-> "none", v |-> v]
Raise(e) == [exc |-> e]
IsOk(r)  == r.exc = "none"

\* key in user_profile
Has(profile, key) == profile[key].k # "absent"

(***************************************************************************)
(* recommendations.py: MealRecommender._calculate_daily_calories           *)
(***************************************************************************)
sWeightLoss == "weight_loss"
sWeightGain == "weight_gain"
sMuscleGain == "muscle_gain"
sMale       == "male"
sVegetarian == "vegetarian"
sSedentary        == "sedentary"
sLightlyActive    == "lightly_active"
sModeratelyActive == "moderately_active"
sVeryActive       == "very_active"
sExtraActive      == "extra_active"

\* activity_multipliers.get(activity_level, 1.55); the argument is a dict entry
activity_multipliers(activity_level) ==
    IF activity_level.k # "val" THEN Dec(155, 100)
    ELSE IF activity_level.v = sSedentary THEN Dec(12, 10)
    ELSE IF activity_level.v = sLightlyActive THEN Dec(1375, 1000)
    ELSE IF activity_level.v = sModeratelyActive THEN Dec(155, 100)
    ELSE IF activity_level.v = sVeryActive THEN Dec(1725, 1000)
    ELSE IF activity_level.v = sExtraActive THEN Dec(19, 10)
    ELSE Dec(155, 100)

\* a variant that adds the male offset for every gender
MifflinStJeor_MaleOnly(weight, height, age, gender) ==
    FAdd(FSub(FAdd(FMul(FromInt(10), weight), FMul(Dec(625, 100), height)),
              FromInt(5 * age)),
         FromInt(5))

\* 10 * weight + 6.25 * height - 5 * age + 5 (male), ... - 161 (otherwise)
MifflinStJeor(weight, height, age, gender) ==
    LET part == FSub(FAdd(FMul(FromInt(10), weight), FMul(Dec(625, 100), height)),
                     FromInt(5 * age))
    IN  FAdd(part, IF gender = sMale THEN FromInt(5) ELSE FNeg(FromInt(161)))

\* the weight-goal factor applied to daily_calories (lines 66-72)
WeightLossFactor == Dec(85, 100)

GoalAdjusted(calories, goals) ==
    IF Contains(goals, sWeightLoss) THEN FMul(calories, WeightLossFactor)
    ELSE IF Contains(goals, sWeightGain) THEN FMul(calories, Dec(115, 100))
    ELSE calories

DefaultBaseCalories == 1800

\* lines 65-76: the goal adjustment and the final int()
GoalCalories(profile, active_calories) ==
    IF ~Has(profile, "goals") THEN Ok(PyInt(active_calories))
    ELSE IF profile.goals.k = "None" THEN Raise("AttributeError")
    ELSE Ok(PyInt(GoalAdjusted(active_calories, Lower(profile.goals.v))))

_calculate_daily_calories(profile) ==
    IF \A key \in {"weight", "height", "age", "gender", "activity_level"} :
           Has(profile, key)
    THEN IF profile.weight.k = "None" THEN Raise("TypeError")       \* float(None)
         ELSE IF profile.height.k = "None" THEN Raise("TypeError")  \* float(None)
         ELSE IF profile.age.k = "None" THEN Raise("TypeError")     \* int(None)
         ELSE IF profile.gender.k = "None" THEN Raise("AttributeError")
         ELSE LET base_calories ==
                      MifflinStJeor(profile.weight.v, profile.height.v,
                                    profile.age.v, Lower(profile.gender.v))
                  active_calories ==
                      FMul(base_calories, activity_multipliers(profile.activity_level))
              IN  GoalCalories(profile, active_calories)
    ELSE Ok(DefaultBaseCalories)

(***************************************************************************)
(* recommendations.py: MealRecommender._calculate_macros                   *)
(***************************************************************************)
Split(protein, carbs, fat) == [protein |-> protein, carbs |-> carbs, fat |-> fat]

\* a variant whose weight-gain shares add up to 1.05
MacroSplit_Unbalanced(goals) ==
    IF Contains(goals, sWeightLoss)
    THEN Split(Dec(30, 100), Dec(40, 100), Dec(30, 100))
    ELSE IF Contains(goals, sWeightGain)
    THEN Split(Dec(25, 100), Dec(55, 100), Dec(25, 100))
    ELSE IF Contains(goals, sMuscleGain)
    THEN Split(Dec(35, 100), Dec(45, 100), Dec(20, 100))
    ELSE Split(Dec(25, 100), Dec(5, 10), Dec(25, 100))

\* a variant that tests weight_gain before weight_loss
MacroSplit_GainFirst(goals) ==
    IF Contains(goals, sWeightGain)
    THEN Split(Dec(25, 100), Dec(55, 100), Dec(20, 100))
    ELSE IF Contains(goals, sWeightLoss)
    THEN Split(Dec(30, 100), Dec(40, 100), Dec(30, 100))
    ELSE IF Contains(goals, sMuscleGain)
    THEN Split(Dec(35, 100), Dec(45, 100), Dec(20, 100))
    ELSE Split(Dec(25, 100), Dec(5, 10), Dec(25, 100))

\* the macros dict chosen by the goal text (lines 81-107); goals is lowered
MacroSplit(goals) ==
    IF Contains(goals, sWeightLoss)
    THEN Split(Dec(30, 100), Dec(40, 100), Dec(30, 100))
    ELSE IF Contains(goals, sWeightGain)
    THEN Split(Dec(25, 100), Dec(55, 100), Dec(20, 100))
    ELSE IF Contains(goals, sMuscleGain)
    THEN Split(Dec(35, 100), Dec(45, 100), Dec(20, 100))
    ELSE Split(Dec(25, 100), Dec(5, 10), Dec(25, 100))

DefaultSplit == Split(Dec(25, 100), Dec(5, 10), Dec(25, 100))

\* a variant that truncates where the code rounds
Grams_Truncated(calories, share, kcal_per_gram) ==
    PyInt(FDiv(FMul(FromInt(calories), share), FromInt(kcal_per_gram)))

\* a variant that rounds halves up: int(x + 0.5)
Grams_HalfUp(calories, share, kcal_per_gram) ==
    PyInt(FAdd(FDiv(FMul(FromInt(calories), share), FromInt(kcal_per_gram)),
               Dec(5, 10)))

\* round((daily_calories * share) / kcal_per_gram)
Grams(calories, share, kcal_per_gram) ==
    PyRound(FDiv(FMul(FromInt(calories), share), FromInt(kcal_per_gram)))

\* the returned dict (lines 113-120)
MacroTargets(calories, macros) ==
    [protein_g   |-> Grams(calories, macros.protein, 4),
     carbs_g     |-> Grams(calories, macros.carbs, 4),
     fat_g       |-> Grams(calories, macros.fat, 9),
     protein_pct |-> FMul(macros.protein, FromInt(100)),
     carbs_pct   |-> FMul(macros.carbs, FromInt(100)),
     fat_pct     |-> FMul(macros.fat, FromInt(100))]

_calculate_macros(profile, calories) ==
    IF ~Has(profile, "goals") THEN Ok(MacroTargets(calories, DefaultSplit))
    ELSE IF profile.goals.k = "None" THEN Raise("AttributeError")
    ELSE Ok(MacroTargets(calories, MacroSplit(Lower(profile.goals.v))))


(***************************************************************************)
(* recommendations.py: MealRecommender._generate_day_plan and              *)
(* _filter_by_meal_type.  The catalog (a DataFrame) is a sequence of rows  *)
(* [label, calories]: the columns the modelled fields of a meal read.      *)
(***************************************************************************)
meat_keywords ==
    {"beef", "chicken", "pork", "turkey", "meat", "fish", "salmon"}

breakfast_keywords ==
    {"pancakes", "waffles", "french_toast", "eggs", "omelette", "breakfast"}

lunch_keywords ==
    {"sandwich", "salad", "soup", "wrap", "bowl"}

dinner_keywords ==
    {"steak", "chicken", "fish", "salmon", "pasta", "rice", "bowl"}

snack_keywords ==
    {"fruit", "yogurt", "nuts", "hummus", "bar"}

\* meal_distribution.items(), in insertion order
meal_distribution ==
    <<[meal_type |-> "breakfast", percentage |-> Dec(25, 100)],
      [meal_type |-> "lunch",     percentage |-> Dec(35, 100)],
      [meal_type |-> "dinner",    percentage |-> Dec(30, 100)],
      [meal_type |-> "snack",     percentage |-> Dec(10, 100)]>>

LabelHas(row, kws) == ContainsAny(Lower(row.label), kws)

_filter_by_meal_type(foods_df, meal_type) ==
    IF meal_type = "breakfast"
    THEN SelectSeq(foods_df, LAMBDA row : LabelHas(row, breakfast_keywords))
    ELSE IF meal_type = "lunch"
    THEN SelectSeq(foods_df, LAMBDA row : LabelHas(row, lunch_keywords))
    ELSE IF meal_type = "dinner"
    THEN SelectSeq(foods_df, LAMBDA row : LabelHas(row, dinner_keywords))
    ELSE IF meal_type = "snack"
    THEN SelectSeq(foods_df, LAMBDA row : LabelHas(row, snack_keywords))
    ELSE foods_df

\* a variant that matches the keywords without lowering the label
WithoutMeat_CaseSensitive(foods_df) ==
    SelectSeq(foods_df, LAMBDA row : ~ContainsAny(row.label, meat_keywords))

\* filtered_foods[~label.str.lower().str.contains('beef|chicken|...')]
WithoutMeat(foods_df) ==
    SelectSeq(foods_df, LAMBDA row : ~LabelHas(row, meat_keywords))

\* filtered_foods of _generate_day_plan (lines 135-141); preferences is lowered
FilteredFoods(foods_df, preferences) ==
    IF Contains(preferences, sVegetarian) THEN WithoutMeat(foods_df) ELSE foods_df

\* suitable_foods (lines 148-150)
SuitableFoods(filtered_foods, meal_type) ==
    LET suitable_foods == _filter_by_meal_type(filtered_foods, meal_type)
    IN  IF suitable_foods = <<>> THEN filtered_foods ELSE suitable_foods

\* DataFrame.sample(1).iloc[0]: stream holds the positions (from 0) the
\* sample(1) calls of one call draw, in order; the k-th draw (from 0) picks the
\* row of the pool at the k-th position
Sample(pool, stream, k) == pool[stream[k + 1] + 1]

\* every outcome of sample(1) on pools of these sizes, one after the other:
\* each draw is any position of its pool
RECURSIVE Draws(_)
Draws(pool_sizes) ==
    IF pool_sizes = <<>> THEN {<<>>}
    ELSE {<<position>> \o stream :
              position \in 0..(pool_sizes[1] - 1),
              stream \in Draws(Tail(pool_sizes))}

\* max(calories_per_serving, 1)
Max1(calories_per_serving) ==
    IF FLt(calories_per_serving, FromInt(1)) THEN FromInt(1) ELSE calories_per_serving

\* the meal dict (lines 155-169), its type, name and calories
Meal(meal_type, food, meal_calories) ==
    LET servings == FDiv(FromInt(meal_calories), Max1(food.calories))
    IN  [type     |-> meal_type,
         name     |-> food.label,
         calories |-> PyInt(FMul(food.calories, servings))]

\* a variant that rounds the product up
MealCalories_RoundedUp(total_calories, percentage) ==
    PyInt(FMul(FromInt(total_calories), percentage)) + 1

\* int(total_calories * percentage)
MealCalories(total_calories, percentage) ==
    PyInt(FMul(FromInt(total_calories), percentage))

\* the loop body (lines 146-169) for one item of meal_distribution, the k-th
\* draw of the call
MealFor(item, total_calories, filtered_foods, stream, k) ==
    Meal(item.meal_type,
         Sample(SuitableFoods(filtered_foods, item.meal_type), stream, k),
         MealCalories(total_calories, item.percentage))

\* for meal_type, percentage in distribution.items(): k0 draws were made before
Meals(distribution, total_calories, filtered_foods, stream, k0) ==
    [j \in DOMAIN distribution |->
        MealFor(distribution[j], total_calories, filtered_foods, stream, k0 + j - 1)]

\* the returned dict (lines 171-182): the meals and the sum of their calories
DayPlan(meals) ==
    [meals         |-> meals,
     totalCalories |-> meals[1].calories + meals[2].calories
                       + meals[3].calories + meals[4].calories]

\* lines 143-182 on the filtered catalog; sample(1) of no rows raises
PlanOfFoods(total_calories, filtered_foods, stream, k0) ==
    IF filtered_foods = <<>> THEN Raise("ValueError")
    ELSE Ok(DayPlan(Meals(meal_distribution, total_calories, filtered_foods,
                          stream, k0)))

\* user_profile.get('dietary_preferences', '').lower(), the entry not None
Preferences(profile) ==
    IF Has(profile, "dietary_preferences")
    THEN Lower(profile.dietary_preferences.v) ELSE ""

_generate_day_plan(total_calories, profile, foods_df, stream, k0) ==
    IF profile.dietary_preferences.k = "None" THEN Raise("AttributeError")
    ELSE PlanOfFoods(total_calories, FilteredFoods(foods_df, Preferences(profile)),
                     stream, k0)

(***************************************************************************)
(* recommendations.py: MealRecommender.generate_meal_plan                  *)
(***************************************************************************)
days_of_week ==
    <<"monday", "tuesday", "wednesday", "thursday", "friday", "saturday", "sunday">>

\* meal_plan[day] = value on a dict kept as its items in insertion order
DictSet(meal_plan, day, value) ==
    IF \E n \in 1..Len(meal_plan) : meal_plan[n].day = day
    THEN [n \in 1..Len(meal_plan) |->
             IF meal_plan[n].day = day THEN [day |-> day, plan |-> value]
             ELSE meal_plan[n]]
    ELSE Append(meal_plan, [day |-> day, plan |-> value])

\* for i in range(n_days), from day i on: Ok(meal_plan), or the exception of
\* the first day's plan that raises
RECURSIVE DayLoop(_, _, _, _, _, _, _)
SetDay(day_plan, i, n_days, meal_plan, total_calories, profile, foods_df, stream) ==
    IF ~IsOk(day_plan) THEN day_plan
    ELSE DayLoop(i + 1, n_days,
                 DictSet(meal_plan, days_of_week[(i % 7) + 1], day_plan.v),
                 total_calories, profile, foods_df, stream)

DayLoop(i, n_days, meal_plan, total_calories, profile, foods_df, stream) ==
    IF i >= n_days THEN Ok(meal_plan)
    ELSE SetDay(_generate_day_plan(total_calories, profile, foods_df, stream, 4 * i),
                i, n_days, meal_plan, total_calories, profile, foods_df, stream)

PyNone == [kind |-> "None"]
PyDict(items) == [kind |-> "dict", items |-> items]

\* a variant that answers an exception with an empty plan
Caught_AsEmptyPlan(result) == IF IsOk(result) THEN PyDict(result.v) ELSE PyDict(<<>>)

\* except Exception: return None
Caught(result) == IF IsOk(result) THEN PyDict(result.v) ELSE PyNone

\* lines 18-32, daily_cal and macros being the results of the two calculations
PlanOfTargets(daily_cal, macros, foods_df, profile, n_days, stream) ==
    IF ~IsOk(daily_cal) THEN PyNone
    ELSE IF ~IsOk(macros) THEN PyNone
    ELSE Caught(DayLoop(0, n_days, <<>>, daily_cal.v, profile, foods_df, stream))

\* macros = self._calculate_macros(user_profile, daily_calories)
MacrosOf(profile, daily_cal) ==
    IF IsOk(daily_cal) THEN _calculate_macros(profile, daily_cal.v) ELSE daily_cal

PlanOfCalories(daily_cal, foods_df, profile, n_days, stream) ==
    PlanOfTargets(daily_cal, MacrosOf(profile, daily_cal), foods_df, profile,
                  n_days, stream)

\* foods is the recommender's food_database: None or Val(rows)
generate_meal_plan(foods, profile, n_days, stream) ==
    IF foods.k = "None" THEN PyNone
    ELSE PlanOfCalories(_calculate_daily_calories(profile), foods.v, profile,
                        n_days, stream)

\* the sizes of the pools sample(1) draws from in one day (line 152), in the
\* order of meal_distribution
day_pools(filtered_foods) ==
    [j \in DOMAIN meal_distribution |->
        Len(SuitableFoods(filtered_foods, meal_distribution[j].meal_type))]

\* for i in range(n_days): the pools of every day
RECURSIVE DaysOf(_, _)
DaysOf(pool_sizes, n_days) ==
    IF n_days <= 0 THEN <<>> ELSE pool_sizes \o DaysOf(pool_sizes, n_days - 1)

\* the sizes of the pools of the draws a call of generate_meal_plan makes: none
\* when it returns None, which it does before the first draw
plan_pools(foods, profile, n_days) ==
    IF \/ foods.k = "None"
       \/ ~IsOk(MacrosOf(profile, _calculate_daily_calories(profile)))
       \/ profile.dietary_preferences.k = "None"
    THEN <<>>
    ELSE IF FilteredFoods(foods.v, Preferences(profile)) = <<>> THEN <<>>
    ELSE DaysOf(day_pools(FilteredFoods(foods.v, Preferences(profile))), n_days)

(***************************************************************************)
(* The objects a call of generate_meal_plan or get_nutrition_insights      *)
(* works on.  A store is the objects that exist, in the order they were    *)
(* built, and the object every name is bound to (0 for none).  An          *)
(* expression that builds an object adds one to the store; an assignment   *)
(* binds a name; nothing else changes the store.  What a call leaves of    *)
(* the catalog, of the caller's profile and of the caller's logs is read   *)
(* from the store its statements leave.                                    *)
(***************************************************************************)
Names ==
    {"self.food_database", "user_profile", "user_food_logs", "filtered_foods",
     "suitable_foods", "food"}

\* the store at the call: the recommender's catalog and the caller's two
\* arguments
Store(foods_df, profile, logs) ==
    [objs  |-> <<foods_df, profile, logs>>,
     names |-> [name \in Names |->
                   IF name = "self.food_database" THEN 1
                   ELSE IF name = "user_profile" THEN 2
                   ELSE IF name = "user_food_logs" THEN 3 ELSE 0]]

\* the object a name is bound to
Deref(store, name) == store.objs[store.names[name]]

\* name = <an expression that builds a new object>: DataFrame.copy(),
\* df[mask], df.sample(1).iloc[0]
New(store, name, object) ==
    [objs  |-> Append(store.objs, object),
     names |-> [store.names EXCEPT ![name] = Len(store.objs) + 1]]

\* name = other: both names are bound to the one object
Bind(store, name, other) ==
    [store EXCEPT !.names[name] = store.names[other]]

\* an expression that reads an object (key in d, d.get(key), d[key], log.attr,
\* iteration, df['label'].str...) builds values of its own
Read(store, name) == store

\* line 152: sample(1) of no rows raises; a raise leaves the store as it is
Sampled(store, stream, k) ==
    IF Deref(store, "suitable_foods") = <<>> THEN [raised |-> TRUE, store |-> store]
    ELSE [raised |-> FALSE,
          store  |-> New(store, "food",
                         Sample(Deref(store, "suitable_foods"), stream, k))]

\* lines 149-150: if suitable_foods.empty: suitable_foods = filtered_foods
Fallback(store) ==
    IF Deref(store, "suitable_foods") = <<>>
    THEN Bind(store, "suitable_foods", "filtered_foods") ELSE store

\* lines 146-152 for one meal type, the k-th draw of the call:
\* _filter_by_meal_type indexes filtered_foods by a mask (lines 193-199)
meal_store(store, meal_type, stream, k) ==
    Sampled(Fallback(New(store, "suitable_foods",
                         _filter_by_meal_type(Deref(store, "filtered_foods"),
                                              meal_type))),
            stream, k)

\* for meal_type, percentage in distribution.items(), from the j-th on
RECURSIVE meals_store(_, _, _, _)
NextMeal(step, j, stream, k0) ==
    IF step.raised THEN step ELSE meals_store(step.store, j + 1, stream, k0)

meals_store(store, j, stream, k0) ==
    IF j > Len(meal_distribution) THEN [raised |-> FALSE, store |-> store]
    ELSE NextMeal(meal_store(store, meal_distribution[j].meal_type, stream,
                             k0 + j - 1),
                  j, stream, k0)

\* line 136: filtered_foods = self.food_database.copy()
Copied(store) ==
    New(store, "filtered_foods", Deref(store, "self.food_database"))

\* lines 138-141: filtered_foods = filtered_foods[~...contains(...)]
Filtered(store) ==
    IF Contains(Preferences(Deref(store, "user_profile")), sVegetarian)
    THEN New(store, "filtered_foods", WithoutMeat(Deref(store, "filtered_foods")))
    ELSE store

\* _generate_day_plan on the store: line 135 raises on a None preference,
\* before the copy
day_store(store, stream, k0) ==
    IF Deref(store, "user_profile").dietary_preferences.k = "None"
    THEN [raised |-> TRUE, store |-> Read(store, "user_profile")]
    ELSE meals_store(Filtered(Copied(Read(store, "user_profile"))), 1, stream, k0)

\* for i in range(days) (lines 29-31), from day i on; except Exception ends
\* the loop
RECURSIVE days_store(_, _, _, _)
NextDay(step, i, n_days, stream) ==
    IF step.raised THEN step.store
    ELSE days_store(step.store, i + 1, n_days, stream)

days_store(store, i, n_days, stream) ==
    IF i >= n_days THEN store
    ELSE NextDay(day_store(store, stream, 4 * i), i, n_days, stream)

\* generate_meal_plan on the store (lines 18-36): the two calculations read
\* user_profile
plan_store(store, n_days, stream) ==
    IF ~IsOk(MacrosOf(Deref(store, "user_profile"),
                      _calculate_daily_calories(Deref(store, "user_profile"))))
    THEN Read(store, "user_profile")
    ELSE days_store(Read(store, "user_profile"), 0, n_days, stream)

\* get_nutrition_insights on the store (lines 201-353): it reads the logs
\* (lines 206-227) and, when there are any, the profile
insights_store(store) ==
    IF Deref(store, "user_food_logs") = <<>> THEN Read(store, "user_food_logs")
    ELSE Read(Read(store, "user_food_logs"), "user_profile")

\* a variant that filters self.food_database itself, without .copy()
food_database_after_NoCopy(foods, profile, n_days, stream) ==
    IF foods.k = "None" \/ profile.dietary_preferences.k = "None" THEN foods
    ELSE Val(FilteredFoods(foods.v, Preferences(profile)))

\* self.food_database after generate_meal_plan(profile, n_days): the catalog
\* is None (lines 14-16), or what the name is bound to in the store the call
\* leaves
food_database_after(foods, profile, n_days, stream) ==
    IF foods.k = "None" THEN foods
    ELSE Val(Deref(plan_store(Store(foods.v, profile, <<>>), n_days, stream),
                   "self.food_database"))

\* the caller's profile dict after generate_meal_plan(profile, n_days)
user_profile_after(foods, profile, n_days, stream) ==
    IF foods.k = "None" THEN profile
    ELSE Deref(plan_store(Store(foods.v, profile, <<>>), n_days, stream),
               "user_profile")

(***************************************************************************)
(* backend/main.py: generate_ai_meal_plan                                  *)
(***************************************************************************)
\* user_dict (lines 1076-1087): every key is present, an unset column is None;
\* id, email and full_name are read by nothing below
user_dict(user) ==
    [dietary_preferences |-> user.dietary_preferences,
     height              |-> user.height,
     weight              |-> user.weight,
     age                 |-> user.age,
     gender              |-> user.gender,
     activity_level      |-> user.activity_level,
     goals               |-> user.goals]

\* `not meal_plan`: None and the empty dict are falsy
Falsy(meal_plan) == meal_plan.kind = "None" \/ meal_plan.items = <<>>

HttpError(status, detail) == [status |-> status, detail |-> detail]
HttpOk(body) == [status |-> 200, body |-> body]

(***************************************************************************)
(* backend/main.py: GET /meal-plan/generate, the handler's own planner.    *)
(* Its catalog food_nutrition_data is a sequence of rows [name, calories]. *)
(***************************************************************************)
\* the truth value of a nullable column: None, '' and 0 are false
TruthyText(entry)   == entry.k = "val" /\ entry.v # ""
TruthyNumber(entry) == entry.k = "val" /\ entry.v # FZero
TruthyInt(entry)    == entry.k = "val" /\ entry.v # 0

HandlerBaseCalories == 2000

\* base_calories (lines 254-259)
handler_base_calories(user) ==
    IF /\ TruthyText(user.gender)
       /\ TruthyNumber(user.weight)
       /\ TruthyNumber(user.height)
       /\ TruthyInt(user.age)
    THEN MifflinStJeor(user.weight.v, user.height.v, user.age.v,
                       Lower(user.gender.v))
    ELSE FromInt(HandlerBaseCalories)

\* activity_level = current_user.activity_level or "moderately_active"
handler_activity_level(user) ==
    IF TruthyText(user.activity_level) THEN user.activity_level
    ELSE Val(sModeratelyActive)

\* the goal adjustment (lines 274-278) of the int daily_calories
handler_goal_calories(calories, goals) ==
    IF ~TruthyText(goals) THEN calories
    ELSE IF Contains(Lower(goals.v), sWeightLoss)
    THEN PyInt(FMul(FromInt(calories), Dec(8, 10)))
    ELSE IF Contains(Lower(goals.v), sWeightGain)
    THEN PyInt(FMul(FromInt(calories), Dec(115, 100)))
    ELSE calories

\* daily_calories (lines 253-278)
handler_daily_calories(user) ==
    handler_goal_calories(
        PyInt(FMul(handler_base_calories(user),
                   activity_multipliers(handler_activity_level(user)))),
        user.goals)

\* is_vegetarian (lines 249-250)
is_vegetarian(user) ==
    /\ TruthyText(user.dietary_preferences)
    /\ Contains(Lower(user.dietary_preferences.v), sVegetarian)

\* meat_keywords of the handler (line 285)
handler_meat_keywords == {"chicken", "beef", "pork", "turkey", "fish", "salmon"}

\* filtered_foods (lines 281-286)
handler_filtered_foods(foods, user) ==
    IF is_vegetarian(user)
    THEN SelectSeq(foods, LAMBDA row :
                       ~ContainsAny(Lower(row.name), handler_meat_keywords))
    ELSE foods

\* the share of daily_calories of each meal type (lines 304-311)
handler_meal_shares ==
    <<[meal_type |-> "breakfast", share |-> Dec(25, 100)],
      [meal_type |-> "lunch",     share |-> Dec(3, 10)],
      [meal_type |-> "dinner",    share |-> Dec(3, 10)],
      [meal_type |-> "snack",     share |-> Dec(15, 100)]>>

\* the meal dict (lines 314-328), its type, name and calories
handler_meal(meal_type, sample_food, meal_calories) ==
    LET servings == FDiv(FromInt(meal_calories), Max1(sample_food.calories))
    IN  [type     |-> meal_type,
         name     |-> sample_food.name,
         calories |-> PyInt(FMul(sample_food.calories, servings))]

\* daily_meals of one day: k0 draws were made before
handler_daily_meals(shares, calories, filtered_foods, stream, k0) ==
    [j \in DOMAIN shares |->
        handler_meal(shares[j].meal_type,
                     Sample(filtered_foods, stream, k0 + j - 1),
                     PyInt(FMul(FromInt(calories), shares[j].share)))]

\* weekly_plan (lines 288-341) as the dict's items; sample(1) of no rows raises
weekly_plan_of(calories, filtered_foods, stream) ==
    IF filtered_foods = <<>> THEN Raise("ValueError")
    ELSE Ok([d \in DOMAIN days_of_week |->
                [day  |-> days_of_week[d],
                 plan |-> DayPlan(handler_daily_meals(handler_meal_shares, calories,
                                                      filtered_foods, stream,
                                                      4 * (d - 1)))]])

weekly_plan(user, foods, stream) ==
    weekly_plan_of(handler_daily_calories(user), handler_filtered_foods(foods, user),
                   stream)

\* the sizes of the pools of the 28 draws of line 314, all of them
\* filtered_foods; no draw is made from an empty frame
weekly_pools(filtered_foods) ==
    IF filtered_foods = <<>> THEN <<>>
    ELSE [k \in 1..(Len(handler_meal_shares) * Len(days_of_week)) |->
             Len(filtered_foods)]

(***************************************************************************)
(* recommendations.py: MealRecommender.get_nutrition_insights and          *)
(* _generate_food_recommendations.  A log entry is                         *)
(* [calories, protein, carbs, fat, fiber, sugar, logged_at]: the first     *)
(* four are doubles, fiber and sugar nullable columns, logged_at the day.  *)
(* An insight is [category, message, priority]; its recommendation text,   *)
(* which nothing reads, is left out.                                       *)
(***************************************************************************)
\* sum(xs): 0 + xs[1] + ... + xs[n]
RECURSIVE FSumTo(_, _)
FSumTo(xs, n) == IF n = 0 THEN FZero ELSE FAdd(FSumTo(xs, n - 1), xs[n])

FSum(xs) == FSumTo(xs, Len(xs))

\* log.fiber or 0
OrZero(entry) == IF entry.k = "val" THEN entry.v ELSE FZero

\* total_calories ... total_sugar (lines 213-218)
Totals(logs) ==
    [calories |-> FSum([i \in DOMAIN logs |-> logs[i].calories]),
     protein  |-> FSum([i \in DOMAIN logs |-> logs[i].protein]),
     carbs    |-> FSum([i \in DOMAIN logs |-> logs[i].carbs]),
     fat      |-> FSum([i \in DOMAIN logs |-> logs[i].fat]),
     fiber    |-> FSum([i \in DOMAIN logs |-> OrZero(logs[i].fiber)]),
     sugar    |-> FSum([i \in DOMAIN logs |-> OrZero(logs[i].sugar)])]

\* days = max(1, len(set(log.logged_at.date() ...)))
LoggedDays(logs) ==
    LET n == Cardinality({logs[i].logged_at : i \in DOMAIN logs})
    IN  IF n < 1 THEN 1 ELSE n

\* avg_calories ... avg_sugar (lines 222-227)
DailyAverages(totals, n) == [f \in DOMAIN totals |-> FDiv(totals[f], FromInt(n))]

\* calories_from_protein, calories_from_carbs, calories_from_fat
CaloriesFrom(totals) ==
    [protein |-> FMul(totals.protein, FromInt(4)),
     carbs   |-> FMul(totals.carbs, FromInt(4)),
     fat     |-> FMul(totals.fat, FromInt(9))]

PctOf(part, total_calorie_sum) == FMul(FDiv(part, total_calorie_sum), FromInt(100))

\* protein_pct, carbs_pct, fat_pct (lines 235-240)
PctWith(from, total_calorie_sum) ==
    IF FLt(FZero, total_calorie_sum)
    THEN [protein |-> PctOf(from.protein, total_calorie_sum),
          carbs   |-> PctOf(from.carbs, total_calorie_sum),
          fat     |-> PctOf(from.fat, total_calorie_sum)]
    ELSE [protein |-> FZero, carbs |-> FZero, fat |-> FZero]

Percentages(from) == PctWith(from, FAdd(FAdd(from.protein, from.carbs), from.fat))

Insight(category, message, priority) ==
    [category |-> category, message |-> message, priority |-> priority]

\* a variant whose three tests are separate ifs
ProteinInsights_SeparateIfs(protein_pct) ==
    (IF FLt(protein_pct, FromInt(10))
     THEN <<Insight("protein",
                    "Your protein intake is very low. Protein is essential for muscle maintenance and recovery.",
                    "high")>>
     ELSE <<>>)
    \o (IF FLt(protein_pct, FromInt(15))
        THEN <<Insight("protein",
                       "Your protein intake could be higher for optimal health.",
                       "medium")>>
        ELSE <<>>)
    \o (IF FLt(FromInt(35), protein_pct)
        THEN <<Insight("protein",
                       "Your protein intake is quite high. While protein is important, balance is key.",
                       "medium")>>
        ELSE <<>>)

\* lines 244-264
ProteinInsights(protein_pct) ==
    IF FLt(protein_pct, FromInt(10))
    THEN <<Insight("protein",
                   "Your protein intake is very low. Protein is essential for muscle maintenance and recovery.",
                   "high")>>
    ELSE IF FLt(protein_pct, FromInt(15))
    THEN <<Insight("protein",
                   "Your protein intake could be higher for optimal health.",
                   "medium")>>
    ELSE IF FLt(FromInt(35), protein_pct)
    THEN <<Insight("protein",
                   "Your protein intake is quite high. While protein is important, balance is key.",
                   "medium")>>
    ELSE <<>>

\* a variant whose bands are closed: <= 30 and >= 65 fire
CarbsInsights_Inclusive(carbs_pct) ==
    IF FLe(carbs_pct, FromInt(30))
    THEN <<Insight("carbs",
                   "Your carbohydrate intake is low. Carbs are your body's main energy source.",
                   "medium")>>
    ELSE IF FLe(FromInt(65), carbs_pct)
    THEN <<Insight("carbs", "Your diet is very high in carbohydrates.", "medium")>>
    ELSE <<>>

\* lines 267-280
CarbsInsights(carbs_pct) ==
    IF FLt(carbs_pct, FromInt(30))
    THEN <<Insight("carbs",
                   "Your carbohydrate intake is low. Carbs are your body's main energy source.",
                   "medium")>>
    ELSE IF FLt(FromInt(65), carbs_pct)
    THEN <<Insight("carbs", "Your diet is very high in carbohydrates.", "medium")>>
    ELSE <<>>

\* lines 283-296
FatInsights(fat_pct) ==
    IF FLt(fat_pct, FromInt(15))
    THEN <<Insight("fat",
                   "Your fat intake is low. Healthy fats are essential for hormone production and nutrient absorption.",
                   "medium")>>
    ELSE IF FLt(FromInt(40), fat_pct)
    THEN <<Insight("fat",
                   "Your fat intake is high. While healthy fats are important, they're also calorie-dense.",
                   "medium")>>
    ELSE <<>>

\* lines 299-305
FiberInsights(avg_fiber) ==
    IF FLt(avg_fiber, FromInt(25))
    THEN <<Insight("fiber",
                   "Your fiber intake appears to be below recommendations. Fiber is important for digestive health.",
                   "medium")>>
    ELSE <<>>

\* lines 308-314
SugarInsights(avg_sugar) ==
    IF FLt(FromInt(50), avg_sugar)
    THEN <<Insight("sugar",
                   "Your sugar intake appears to be high. Excessive sugar consumption is linked to various health issues.",
                   "high")>>
    ELSE <<>>

\* lines 321-334, estimated_calories being an int
CalorieInsights(estimated_calories, avg_calories) ==
    IF FLt(avg_calories, FMul(FromInt(estimated_calories), Dec(7, 10)))
    THEN <<Insight("calories",
                   "Your average calorie intake (" \o ToString(PyInt(avg_calories))
                   \o ") is much lower than your estimated needs ("
                   \o ToString(estimated_calories) \o ").",
                   "high")>>
    ELSE IF FLt(FMul(FromInt(estimated_calories), Dec(13, 10)), avg_calories)
    THEN <<Insight("calories",
                   "Your average calorie intake (" \o ToString(PyInt(avg_calories))
                   \o ") is higher than your estimated needs ("
                   \o ToString(estimated_calories) \o ").",
                   "medium")>>
    ELSE <<>>

\* the calorie insights of the result of _calculate_daily_calories
EstimateInsights(estimate, avg_calories) ==
    IF IsOk(estimate) THEN Ok(CalorieInsights(estimate.v, avg_calories))
    ELSE estimate

\* lines 317-334: no estimate is made unless the four keys are in the dict
ProfileInsights(profile, avg_calories) ==
    IF \A key \in {"weight", "height", "age", "gender"} : Has(profile, key)
    THEN EstimateInsights(_calculate_daily_calories(profile), avg_calories)
    ELSE Ok(<<>>)

\* x in xs
InList(x, xs) == \E i \in DOMAIN xs : xs[i] = x

\* categories_to_improve: every priority is high or medium
CategoriesToImprove(insights) ==
    LET chosen == SelectSeq(insights,
                            LAMBDA insight : insight.priority \in {"high", "medium"})
    IN  [i \in DOMAIN chosen |-> chosen[i].category]

\* any(word in insight["message"] and "high" in insight["message"] ...)
SaysHigh(insights, word) ==
    \E i \in DOMAIN insights :
        Contains(insights[i].message, word) /\ Contains(insights[i].message, "high")

ProteinFoods(profile) ==
    IF Contains(Preferences(profile), sVegetarian)
    THEN <<"Greek yogurt (high protein dairy)", "Lentils (plant-based protein)",
           "Tofu (complete plant protein)", "Chickpeas (protein and fiber)",
           "Quinoa (complete protein grain)">>
    ELSE <<"Chicken breast (lean protein)", "Greek yogurt (high protein dairy)",
           "Eggs (complete protein)", "Tuna (lean protein source)",
           "Turkey (lean meat protein)">>

CarbsFoods(insights) ==
    IF SaysHigh(insights, "carbs")
    THEN <<"Replace refined grains with vegetables",
           "Choose lower-carb fruits like berries", "Include more leafy greens">>
    ELSE <<"Oatmeal (complex carbs with fiber)",
           "Sweet potatoes (nutrient-dense carb source)",
           "Brown rice (whole grain carb source)", "Bananas (carbs with potassium)",
           "Whole grain bread (complex carbs)">>

FatFoods(insights) ==
    IF SaysHigh(insights, "fat")
    THEN <<"Choose lean protein sources", "Use olive oil instead of butter",
           "Include fatty fish like salmon">>
    ELSE <<"Avocados (healthy monounsaturated fats)",
           "Nuts (healthy fats and protein)", "Olive oil (healthy cooking oil)",
           "Chia seeds (omega-3 fatty acids)",
           "Fatty fish like salmon (omega-3 sources)">>

FiberFoods ==
    <<"Chia seeds (high in soluble fiber)", "Berries (fruit with high fiber)",
      "Lentils (protein and fiber)", "Broccoli (vegetable with fiber)",
      "Oats (whole grain with beta-glucan fiber)">>

SugarFoods ==
    <<"Replace sugary drinks with water or herbal tea",
      "Choose whole fruits instead of fruit juices",
      "Read labels for hidden added sugars", "Try cinnamon as a natural sweetener",
      "Gradually reduce sugar in coffee/tea">>

GeneralFoods ==
    <<"Eat a variety of colorful fruits and vegetables",
      "Choose whole grains over refined grains",
      "Include lean proteins in your meals",
      "Stay hydrated by drinking water throughout the day",
      "Limit highly processed foods and added sugars">>

MaxRecommendations == 10

\* a variant that returns the whole list
TopRecommendations_Unsliced(recommendations) ==
    IF recommendations = <<>> THEN GeneralFoods ELSE recommendations

\* recommendations[:10], the general list when none was added
TopRecommendations(recommendations) ==
    IF recommendations = <<>> THEN GeneralFoods
    ELSE SubSeq(recommendations, 1,
                IF Len(recommendations) < MaxRecommendations
                THEN Len(recommendations) ELSE MaxRecommendations)

\* a variant that puts the sugar list first
FoodsFor_SugarFirst(categories, insights, profile) ==
    (IF InList("sugar", categories) THEN SugarFoods ELSE <<>>)
    \o (IF InList("protein", categories) THEN ProteinFoods(profile) ELSE <<>>)
    \o (IF InList("carbs", categories) THEN CarbsFoods(insights) ELSE <<>>)
    \o (IF InList("fat", categories) THEN FatFoods(insights) ELSE <<>>)
    \o (IF InList("fiber", categories) THEN FiberFoods ELSE <<>>)

\* the recommendations by category, in the order of the code
FoodsFor(categories, insights, profile) ==
    (IF InList("protein", categories) THEN ProteinFoods(profile) ELSE <<>>)
    \o (IF InList("carbs", categories) THEN CarbsFoods(insights) ELSE <<>>)
    \o (IF InList("fat", categories) THEN FatFoods(insights) ELSE <<>>)
    \o (IF InList("fiber", categories) THEN FiberFoods ELSE <<>>)
    \o (IF InList("sugar", categories) THEN SugarFoods ELSE <<>>)

\* None.lower() raises where the protein branch reads the preferences
_generate_food_recommendations(insights, profile) ==
    IF /\ InList("protein", CategoriesToImprove(insights))
       /\ profile.dietary_preferences.k = "None"
    THEN Raise("AttributeError")
    ELSE Ok(TopRecommendations(FoodsFor(CategoriesToImprove(insights), insights,
                                        profile)))

\* the returned dict (lines 337-353)
Report(pct, avg, insights, food_recommendations) ==
    IF IsOk(food_recommendations)
    THEN Ok([macronutrient_ratios |->
                 [protein_percentage |-> PyRound1(pct.protein),
                  carbs_percentage   |-> PyRound1(pct.carbs),
                  fat_percentage     |-> PyRound1(pct.fat)],
             daily_averages       |-> [f \in DOMAIN avg |-> PyRound1(avg[f])],
             insights             |-> insights,
             food_recommendations |-> food_recommendations.v])
    ELSE food_recommendations

ReportOn(pct, avg, insights, profile) ==
    Report(pct, avg, insights, _generate_food_recommendations(insights, profile))

\* insights in the order they are appended; calorie_insights is the result of
\* the calorie block
WithInsights(pct, avg, calorie_insights, profile) ==
    IF IsOk(calorie_insights)
    THEN ReportOn(pct, avg,
                  ProteinInsights(pct.protein) \o CarbsInsights(pct.carbs)
                  \o FatInsights(pct.fat) \o FiberInsights(avg.fiber)
                  \o SugarInsights(avg.sugar) \o calorie_insights.v,
                  profile)
    ELSE calorie_insights

Analysis(pct, avg, profile) ==
    WithInsights(pct, avg, ProfileInsights(profile, avg.calories), profile)

NotEnoughData ==
    [message  |-> "Not enough data for insights. Log more meals for personalized nutrition insights.",
     insights |-> <<>>]

get_nutrition_insights(logs, profile) ==
    IF logs = <<>> THEN Ok(NotEnoughData)
    ELSE Analysis(Percentages(CaloriesFrom(Totals(logs))),
                  DailyAverages(Totals(logs), LoggedDays(logs)), profile)

(***************************************************************************)
(* The state.                                                              *)
(***************************************************************************)
VARIABLES
    user_profile,        \* the user_profile dict a caller hands to MealRecommender
    daily_calories,      \* the daily_calories of _calculate_macros and of the handler
    food_database,       \* MealRecommender.food_database: None or Val(rows)
    food_nutrition_data, \* the catalog of GET /meal-plan/generate
    user_food_logs,      \* the food_logs rows handed to get_nutrition_insights
    days,                \* the days argument
    rng,                 \* the positions the sample(1) calls of the last call drew
    current_user,        \* the users row of the authenticated request
    meal_plans,          \* the meal_plans table
    food_logs,           \* the food_logs table
    user_goals,          \* the user_goals table
    food_items,          \* the food_items table
    path_id,             \* the {id} path parameter of the request answered last
    inflight,            \* the requests between two statements, and the thread
                         \* of populate_food_database
    nutrition_data_loader, \* what the NutritionDataLoader answers
    served,              \* the MealRecommender calls answered so far: [op, profile]
    callers,             \* the profile dict and the log list each caller of one
                         \* MealRecommender holds, and the days it asks for
    call,                \* the operation that has returned, "none" before it
    ret                  \* what it returned or raised

\* the tables and request state only the CRUD and barcode handlers use
db_vars ==
    <<food_logs, user_goals, food_items, path_id, inflight, nutrition_data_loader,
      callers>>

vars == <<user_profile, daily_calories, food_database, food_nutrition_data,
          nutrition_data_loader, user_food_logs, days, rng, current_user, meal_plans, food_logs,
          user_goals, food_items, path_id, inflight, served, callers, call, ret>>

NoRet == [kind |-> "pending"]

\* a profile dict from its seven entries
Profile(weight, height, age, gender, activity_level, goals, dietary_preferences) ==
    [weight |-> weight, height |-> height, age |-> age, gender |-> gender,
     activity_level |-> activity_level, goals |-> goals,
     dietary_preferences |-> dietary_preferences]

EmptyProfile == Profile(Absent, Absent, Absent, Absent, Absent, Absent, Absent)

\* an unauthenticated request never reaches a handler: id 0 is no user
NoUser ==
    [id |-> 0, dietary_preferences |-> None, height |-> None, weight |-> None,
     age |-> None, gender |-> None, activity_level |-> None, goals |-> None]

(***************************************************************************)
(* Inputs.                                                                 *)
(***************************************************************************)
tMale        == "Male"
tFemale      == "female"
tCouch       == "couch"
tEmpty       == ""
tWeightLoss  == "Weight_Loss"
tGainAndLoss == "weight_gain weight_loss"
tMuscleAndGain == "MUSCLE_GAIN weight_gain"

ActivityOrder ==
    <<sSedentary, sLightlyActive, sModeratelyActive, sVeryActive, sExtraActive>>

\* every field present: bodies from an adult to a small, old one
NumericProfiles ==
    {Profile(Val(FromInt(w)), Val(FromInt(h)), Val(a), Val(g), act, goals, Absent) :
        w \in {70, 5}, h \in {175, 50}, a \in {30, 90}, g \in {tMale, tFemale},
        act \in {Val(ActivityOrder[n]) : n \in 1..5} \cup {Val(tCouch), None},
        goals \in {Absent, Val(tEmpty), Val(tWeightLoss), Val(sWeightGain),
                   Val(tGainAndLoss), Val(sMuscleGain)}}

\* present but invalid fields: a negative weight, height or age
InvalidProfiles ==
    {Profile(Val(FromInt(w)), Val(FromInt(h)), Val(a), Val(sMale), Val(sSedentary),
             Absent, Absent) :
        w \in {-70, 70}, h \in {-175, 175}, a \in {-30, 30}}

\* every pattern of missing keys and null values
PresenceProfiles ==
    {Profile(w, h, a, g, act, goals, Absent) :
        w \in {Absent, None, Val(FromInt(70))},
        h \in {Absent, None, Val(FromInt(175))},
        a \in {Absent, None, Val(30)},
        g \in {Absent, None, Val(sMale)},
        act \in {Absent, None, Val(sSedentary)},
        goals \in {Absent, None, Val(sWeightLoss)}}

GoalProfiles ==
    {Profile(Absent, Absent, Absent, Absent, Absent, goals, Absent) :
        goals \in {Absent, None, Val(tEmpty), Val(tWeightLoss), Val(sWeightGain),
                   Val(tGainAndLoss), Val(sMuscleGain), Val(tMuscleAndGain)}}

MaxCalories == 60

\* small totals, and the spec's worked example and its neighbour
CalorieTotals == (1..MaxCalories) \cup {2660, 2680}

(***************************************************************************)
(* MealRecommender._calculate_daily_calories on every profile.             *)
(***************************************************************************)
InitCalories ==
    /\ user_profile \in NumericProfiles \cup PresenceProfiles \cup InvalidProfiles
    /\ daily_calories = 0
    /\ food_database = None
    /\ food_nutrition_data = <<>>
    /\ user_food_logs = <<>>
    /\ days = 0
    /\ rng = <<>>
    /\ current_user = NoUser
    /\ meal_plans = <<>>
    /\ served = <<>>
    /\ food_logs = <<>>
    /\ user_goals = <<>>
    /\ food_items = <<>>
    /\ path_id = 0
    /\ inflight = <<>>
    /\ nutrition_data_loader = None
    /\ callers = <<>>
    /\ call = "none"
    /\ ret = NoRet

CalculateDailyCalories ==
    /\ call = "none"
    /\ call' = "_calculate_daily_calories"
    /\ UNCHANGED db_vars
    /\ served' = Append(served, [op |-> "_calculate_daily_calories", profile |-> user_profile])
    /\ ret' = _calculate_daily_calories(user_profile)
    /\ UNCHANGED <<user_profile, daily_calories, food_database,
                   food_nutrition_data, user_food_logs, days, rng, current_user,
                   meal_plans>>

SpecCalories == InitCalories /\ [][CalculateDailyCalories]_vars

(***************************************************************************)
(* MealRecommender._calculate_macros on every goal and calorie total.      *)
(***************************************************************************)
InitMacros ==
    /\ user_profile \in GoalProfiles
    /\ daily_calories \in CalorieTotals
    /\ food_database = None
    /\ food_nutrition_data = <<>>
    /\ user_food_logs = <<>>
    /\ days = 0
    /\ rng = <<>>
    /\ current_user = NoUser
    /\ meal_plans = <<>>
    /\ served = <<>>
    /\ food_logs = <<>>
    /\ user_goals = <<>>
    /\ food_items = <<>>
    /\ path_id = 0
    /\ inflight = <<>>
    /\ nutrition_data_loader = None
    /\ callers = <<>>
    /\ call = "none"
    /\ ret = NoRet

CalculateMacros ==
    /\ call = "none"
    /\ call' = "_calculate_macros"
    /\ UNCHANGED db_vars
    /\ served' = Append(served, [op |-> "_calculate_macros", profile |-> user_profile])
    /\ ret' = _calculate_macros(user_profile, daily_calories)
    /\ UNCHANGED <<user_profile, daily_calories, food_database,
                   food_nutrition_data, user_food_logs, days, rng, current_user,
                   meal_plans>>

SpecMacros == InitMacros /\ [][CalculateMacros]_vars

(***************************************************************************)
(* The two targets of generate_meal_plan (lines 20-23): the calories of    *)
(* _calculate_daily_calories are handed to _calculate_macros.              *)
(***************************************************************************)
tLossInGain == "Weight_Gain after WEIGHT_LOSS"
tMaintain   == "maintain"

\* full bodies with every goal text
TargetProfiles ==
    {Profile(Val(FromInt(70)), Val(FromInt(h)), Val(30), Val(g), Val(act),
             Val(goals), Absent) :
        h \in {175, 160}, g \in {tMale, tFemale},
        act \in {sSedentary, sModeratelyActive, sExtraActive},
        goals \in {tEmpty, tMaintain, tWeightLoss, sWeightGain, tGainAndLoss,
                   tLossInGain, sMuscleGain, tMuscleAndGain}}

InitTargets ==
    /\ user_profile \in TargetProfiles
    /\ daily_calories = 0
    /\ food_database = None
    /\ food_nutrition_data = <<>>
    /\ user_food_logs = <<>>
    /\ days = 0
    /\ rng = <<>>
    /\ current_user = NoUser
    /\ meal_plans = <<>>
    /\ served = <<>>
    /\ food_logs = <<>>
    /\ user_goals = <<>>
    /\ food_items = <<>>
    /\ path_id = 0
    /\ inflight = <<>>
    /\ nutrition_data_loader = None
    /\ callers = <<>>
    /\ call = "none"
    /\ ret = NoRet

\* macros = self._calculate_macros(user_profile, daily_calories)
MacrosOfDailyCalories ==
    /\ call = "_calculate_daily_calories"
    /\ IsOk(ret)
    /\ daily_calories' = ret.v
    /\ ret' = _calculate_macros(user_profile, ret.v)
    /\ call' = "_calculate_macros"
    /\ UNCHANGED db_vars
    /\ served' = Append(served, [op |-> "_calculate_macros", profile |-> user_profile])
    /\ UNCHANGED <<user_profile, food_database, food_nutrition_data,
                   user_food_logs, days, rng, current_user, meal_plans>>

NextTargets == CalculateDailyCalories \/ MacrosOfDailyCalories

SpecTargets == InitTargets /\ [][NextTargets]_vars


(***************************************************************************)
(* backend/main.py: PUT /users/me.  update_user_profile is a plain         *)
(* function, which FastAPI runs on a thread with a database session of its *)
(* own: it loads the users row, assigns the body to the object, commits    *)
(* and reads the row again, and other requests run between these           *)
(* statements.  current_user is the users row in the database, which the   *)
(* handlers below read as the last commit left it; inflight holds the PUT  *)
(* requests.                                                               *)
(***************************************************************************)
\* a UserUpdate body: a field that was not sent is None
UserUpdate(dietary_preferences, height, activity_level, goals) ==
    [dietary_preferences |-> dietary_preferences, height |-> height,
     weight |-> None, age |-> None, gender |-> None,
     activity_level |-> activity_level, goals |-> goals]

\* the bodies of the PUT requests, one request for each
UserUpdates ==
    <<UserUpdate(Val("vegetarian"), None, None, None),
      UserUpdate(None, Val(FromInt(180)), Val("very_active"), Val("weight_gain"))>>

\* if user_update.x is not None: user.x = user_update.x, for the seven columns
updated_user(user, user_update) ==
    [column \in DOMAIN user |->
        IF column = "id" THEN user.id
        ELSE IF user_update[column].k = "val" THEN user_update[column]
        ELSE user[column]]

\* db.commit() of the object user, whose columns were loaded as loaded: UPDATE
\* users SET the columns whose value changed WHERE id = user.id, on the row as
\* it is now
committed_user(row, loaded, user) ==
    [column \in DOMAIN row |->
        IF user[column] # loaded[column] THEN user[column] ELSE row[column]]

\* a PUT /users/me request: where its handler stands, its body, the object of
\* its session with the columns as it loaded them, and its response
Put(pc, user_update, user, loaded, response) ==
    [op |-> "PUT /users/me", pc |-> pc, user_update |-> user_update,
     user |-> user, loaded |-> loaded, response |-> response]

\* the requests as the server received them
PutRequests ==
    [r \in DOMAIN UserUpdates |->
        Put("received", UserUpdates[r], NoUser, NoUser, NoRet)]

\* what a statement of a PUT /users/me request leaves alone
PutFrame ==
    /\ call' = "PUT /users/me"
    /\ UNCHANGED <<user_profile, daily_calories, food_database,
                   food_nutrition_data, nutrition_data_loader, callers, user_food_logs,
                   days, rng, meal_plans, food_logs, user_goals, food_items,
                   path_id, served>>

\* lines 201-229: the row is loaded and the fields of the body are assigned to
\* the object
QueryUser ==
    \E r \in DOMAIN inflight :
        /\ inflight[r].op = "PUT /users/me"
        /\ inflight[r].pc = "received"
        /\ inflight' = [inflight EXCEPT
                            ![r].pc = "assigned",
                            ![r].loaded = current_user,
                            ![r].user = updated_user(current_user,
                                                     inflight[r].user_update)]
        /\ ret' = NoRet
        /\ UNCHANGED current_user
        /\ PutFrame

\* line 231: db.commit()
CommitUser ==
    \E r \in DOMAIN inflight :
        /\ inflight[r].op = "PUT /users/me"
        /\ inflight[r].pc = "assigned"
        /\ current_user' = committed_user(current_user, inflight[r].loaded,
                                          inflight[r].user)
        /\ inflight' = [inflight EXCEPT ![r].pc = "committed"]
        /\ ret' = NoRet
        /\ PutFrame

\* lines 232-236: db.refresh(user); return user: the row as it is now
RefreshUser ==
    \E r \in DOMAIN inflight :
        /\ inflight[r].op = "PUT /users/me"
        /\ inflight[r].pc = "committed"
        /\ inflight' = [inflight EXCEPT ![r].pc = "answered",
                                        ![r].response = HttpOk(current_user)]
        /\ ret' = HttpOk(current_user)
        /\ UNCHANGED current_user
        /\ PutFrame

(***************************************************************************)
(* MealRecommender.generate_meal_plan, called directly and by the function *)
(* generate_ai_meal_plan.  The route of that function,                     *)
(* GET /meal-plan/ai-generate, is declared after GET                       *)
(* /meal-plan/{meal_plan_id}, which matches its path first.                *)
(***************************************************************************)
Row(label, calories) == [label |-> label, calories |-> FromInt(calories)]

BeefBowl    == Row("Beef Bowl", 350)
Meatloaf    == Row("MEATLOAF", 250)
Eggs        == Row("Scrambled Eggs", 140)
Tofu        == Row("Tofu", 76)
HerbalTea   == Row("Herbal Tea", 0)
ChickenRice == Row("Chicken Rice", 130)

\* no catalog loaded, an empty one, only meat, mixed ones, and one of one row
Catalogs ==
    {None, Val(<<>>), Val(<<BeefBowl, Meatloaf>>), Val(<<BeefBowl, Eggs, Tofu>>),
     Val(<<Tofu, HerbalTea, ChickenRice>>), Val(<<Eggs>>)}

tVegetarian == "Vegetarian"
tStrictVeg  == "strict VEGETARIAN"
tKeto       == "keto"

\* a full body, a small and old one, no body at all (the default base), and a
\* null weight
PlanProfiles ==
    UNION {{Profile(Val(FromInt(70)), Val(FromInt(175)), Val(30), Val(tMale),
                    Val(sModeratelyActive), Absent, pref),
            Profile(Val(FromInt(5)), Val(FromInt(50)), Val(90), Val(tFemale),
                    Val(sSedentary), Absent, pref),
            Profile(Absent, Absent, Absent, Absent, Absent, Absent, pref),
            Profile(None, Val(FromInt(175)), Val(30), Val(tMale),
                    Val(sModeratelyActive), Absent, pref)} :
              pref \in {Absent, None, Val(tVegetarian), Val(tKeto)}}

PlanUsers ==
    {[id |-> 1, dietary_preferences |-> pref, height |-> Val(FromInt(175)),
      weight |-> Val(FromInt(70)), age |-> Val(30), gender |-> Val(tFemale),
      activity_level |-> None, goals |-> goals] :
        pref \in {None, Val(tStrictVeg), Val(tKeto)},
        goals \in {None, Val(tWeightLoss)}}

MaxDays == 8

DayCounts == {1, 3, MaxDays}

\* a call is an input when sample(1) has at most this many outcomes in it, so
\* that every one of them is a behaviour
MaxOutcomes == 512

\* the number of outcomes of the draws from pools of these sizes, counted up
\* to MaxOutcomes
RECURSIVE Outcomes(_)
Outcomes(pool_sizes) ==
    IF pool_sizes = <<>> THEN 1
    ELSE LET rest == Outcomes(Tail(pool_sizes))
         IN  IF rest > MaxOutcomes THEN rest ELSE pool_sizes[1] * rest

InitPlan ==
    /\ \/ user_profile \in PlanProfiles /\ current_user = NoUser
       \/ user_profile = EmptyProfile /\ current_user \in PlanUsers
    /\ daily_calories = 0
    /\ food_database \in Catalogs
    /\ food_nutrition_data = <<>>
    /\ user_food_logs = <<>>
    /\ days \in DayCounts
    /\ Outcomes(plan_pools(food_database,
                           IF current_user = NoUser THEN user_profile
                           ELSE user_dict(current_user),
                           days)) <= MaxOutcomes
    /\ rng = <<>>
    /\ meal_plans = <<>>
    /\ served = <<>>
    /\ food_logs = <<>>
    /\ user_goals = <<>>
    /\ food_items = <<>>
    /\ path_id = 0
    /\ inflight = <<>>
    /\ nutrition_data_loader = None
    /\ callers = <<>>
    /\ call = "none"
    /\ ret = NoRet

\* a direct call of MealRecommender.generate_meal_plan(user_profile, days)
GenerateMealPlan ==
    /\ call = "none"
    /\ current_user = NoUser
    /\ call' = "generate_meal_plan"
    /\ UNCHANGED db_vars
    /\ served' = Append(served, [op |-> "generate_meal_plan", profile |-> user_profile])
    /\ \E stream \in Draws(plan_pools(food_database, user_profile, days)) :
           /\ ret' = generate_meal_plan(food_database, user_profile, days, stream)
           /\ rng' = stream
    /\ UNCHANGED <<user_profile, daily_calories, food_database,
                   food_nutrition_data, user_food_logs, days, current_user,
                   meal_plans>>

\* a call of the function generate_ai_meal_plan(days, current_user, db): the
\* HTTPException it raises is the response 500
GenerateAiMealPlan ==
    /\ call = "none"
    /\ current_user # NoUser
    /\ \E stream \in Draws(plan_pools(food_database, user_dict(current_user), days)) :
         \E meal_plan \in {generate_meal_plan(food_database, user_dict(current_user),
                                              days, stream)} :
           /\ user_profile' = user_dict(current_user)
           /\ rng' = stream
           /\ IF Falsy(meal_plan)
              THEN /\ ret' = HttpError(500, "Failed to generate meal plan")
                   /\ UNCHANGED meal_plans
              ELSE /\ ret' = HttpOk(meal_plan)
                   /\ meal_plans' =
                          Append(meal_plans,
                                 [user_id |-> current_user.id, plan_data |-> meal_plan,
                                  name |-> "AI-Generated Meal Plan", is_active |-> TRUE])
    /\ call' = "generate_ai_meal_plan"
    /\ UNCHANGED db_vars
    /\ served' = Append(served, [op |-> "generate_ai_meal_plan", profile |-> user_dict(current_user)])
    /\ UNCHANGED <<daily_calories, food_database, food_nutrition_data,
                   user_food_logs, days, current_user>>

\* the response to a path parameter meal_plan_id that is no int; the detail, a
\* list of one validation error, is kept as the parameter it names
HttpUnprocessable == HttpError(422, "path meal_plan_id")

\* the request GET /meal-plan/ai-generate: the route /meal-plan/{meal_plan_id}
\* of get_meal_plan (line 403) is declared before the one of
\* generate_ai_meal_plan (line 1068) and matches the path, and 'ai-generate' is
\* no int, so neither function runs
GetMealPlanAiGenerate ==
    /\ call = "none"
    /\ current_user # NoUser
    /\ call' = "GET /meal-plan/ai-generate"
    /\ ret' = HttpUnprocessable
    /\ UNCHANGED db_vars
    /\ UNCHANGED <<user_profile, daily_calories, food_database,
                   food_nutrition_data, user_food_logs, days, rng, current_user,
                   meal_plans, served>>

NextPlan == GenerateMealPlan \/ GenerateAiMealPlan \/ GetMealPlanAiGenerate

SpecPlan == InitPlan /\ [][NextPlan]_vars

(***************************************************************************)
(* GET /meal-plan/generate.                                                *)
(***************************************************************************)
Item(name, calories) == [name |-> name, calories |-> FromInt(calories)]

\* the catalog main.py falls back to (lines 76-82)
DefaultFoods ==
    <<Item("Apple", 52), Item("Banana", 89), Item("Chicken Breast", 165),
      Item("Salmon", 208), Item("Brown Rice", 112)>>

\* catalogs of which at most one row is left for a vegetarian: a meat dish
\* named by no handler keyword beside one that is, two rows of the default
\* catalog, only meat, one row and none
HandlerCatalogs ==
    {<<Item("Chicken Breast", 165), Item("Meatloaf", 250)>>,
     <<Item("Salmon", 208), Item("Brown Rice", 112)>>,
     <<Item("Chicken Breast", 165), Item("BEEF STEW", 300)>>,
     <<Item("Tofu", 76)>>,
     <<>>}

HandlerUsers ==
    {[id |-> 1, dietary_preferences |-> pref, height |-> height,
      weight |-> Val(FromInt(70)), age |-> Val(30), gender |-> Val(tMale),
      activity_level |-> act, goals |-> goals] :
        pref \in {None, Val(tEmpty), Val(tStrictVeg), Val(tKeto)},
        height \in {None, Val(FromInt(175))},
        act \in {None, Val(sSedentary)},
        goals \in {None, Val(tWeightLoss), Val(sWeightGain)}}

\* a GET /meal-plan/generate request: where its handler stands, the users row
\* its session loaded, the plan it built and its response
WeeklyRequest(pc, user, plan, response) ==
    [op |-> "GET /meal-plan/generate", pc |-> pc, user |-> user, plan |-> plan,
     response |-> response]

InitHandler ==
    /\ user_profile = EmptyProfile
    /\ daily_calories = 0
    /\ food_database = None
    /\ food_nutrition_data \in HandlerCatalogs
    /\ user_food_logs = <<>>
    /\ days = 0
    /\ rng = <<>>
    /\ current_user \in HandlerUsers
    /\ Outcomes(weekly_pools(handler_filtered_foods(food_nutrition_data,
                                                    current_user))) <= MaxOutcomes
    /\ meal_plans = <<>>
    /\ served = <<>>
    /\ food_logs = <<>>
    /\ user_goals = <<>>
    /\ food_items = <<>>
    /\ path_id = 0
    /\ inflight = Append(PutRequests, WeeklyRequest("received", NoUser, PyNone, NoRet))
    /\ nutrition_data_loader = None
    /\ callers = <<>>
    /\ call = "none"
    /\ ret = NoRet

\* line 241, current_user = Depends(get_current_user): the session of the
\* request loads the users row before the handler's body runs
LoadWeeklyUser ==
    \E r \in DOMAIN inflight :
        /\ inflight[r].op = "GET /meal-plan/generate"
        /\ inflight[r].pc = "received"
        /\ inflight' = [inflight EXCEPT ![r].pc = "loaded",
                                        ![r].user = current_user]
        /\ UNCHANGED <<user_profile, daily_calories, food_database,
                       food_nutrition_data, user_food_logs, days, rng,
                       current_user, meal_plans, food_logs, user_goals,
                       food_items, path_id, nutrition_data_loader, served,
                       callers, call, ret>>

\* lines 244-354, the handler's body on the row its session loaded: the plan
\* is built and the meal_plans row is inserted and committed; an exception
\* the body does not catch is the framework's 500 response
GenerateWeeklyMealPlan ==
    \E r \in DOMAIN inflight :
        /\ inflight[r].op = "GET /meal-plan/generate"
        /\ inflight[r].pc = "loaded"
        /\ \E calories \in {handler_daily_calories(inflight[r].user)},
              filtered_foods \in {handler_filtered_foods(food_nutrition_data,
                                                         inflight[r].user)} :
             \E stream \in Draws(weekly_pools(filtered_foods)) :
             \E plan \in {weekly_plan_of(calories, filtered_foods, stream)} :
               /\ daily_calories' = calories
               /\ rng' = stream
               /\ IF IsOk(plan)
                  THEN /\ meal_plans' =
                              Append(meal_plans,
                                     [user_id |-> inflight[r].user.id,
                                      plan_data |-> PyDict(plan.v),
                                      name |-> "Weekly Meal Plan",
                                      is_active |-> TRUE])
                       /\ inflight' = [inflight EXCEPT
                                           ![r].pc = "committed",
                                           ![r].plan = PyDict(plan.v)]
                       /\ UNCHANGED <<served, call, ret>>
                  ELSE /\ inflight' =
                              [inflight EXCEPT
                                  ![r].pc = "answered",
                                  ![r].response =
                                      HttpError(500, "Internal Server Error")]
                       /\ call' = "GET /meal-plan/generate"
                       /\ ret' = HttpError(500, "Internal Server Error")
                       /\ served' = Append(served,
                                           [op |-> "GET /meal-plan/generate",
                                            profile |-> user_profile])
                       /\ UNCHANGED meal_plans
        /\ UNCHANGED <<user_profile, food_database, food_nutrition_data,
                       user_food_logs, days, current_user, food_logs,
                       user_goals, food_items, path_id, nutrition_data_loader,
                       callers>>

\* lines 356-358: return weekly_plan; the log line before it reads the row
\* again, the response does not
ReturnWeeklyMealPlan ==
    \E r \in DOMAIN inflight :
        /\ inflight[r].op = "GET /meal-plan/generate"
        /\ inflight[r].pc = "committed"
        /\ inflight' = [inflight EXCEPT ![r].pc = "answered",
                                        ![r].response = HttpOk(inflight[r].plan)]
        /\ call' = "GET /meal-plan/generate"
        /\ ret' = HttpOk(inflight[r].plan)
        /\ served' = Append(served, [op |-> "GET /meal-plan/generate",
                                     profile |-> user_profile])
        /\ UNCHANGED <<user_profile, daily_calories, food_database,
                       food_nutrition_data, user_food_logs, days, rng,
                       current_user, meal_plans, food_logs, user_goals,
                       food_items, path_id, nutrition_data_loader, callers>>

NextHandler ==
    \/ LoadWeeklyUser \/ GenerateWeeklyMealPlan \/ ReturnWeeklyMealPlan
    \/ QueryUser \/ CommitUser \/ RefreshUser

SpecHandler == InitHandler /\ [][NextHandler]_vars

(***************************************************************************)
(* MealRecommender.get_nutrition_insights, called directly and through     *)
(* GET /nutrition/insights.                                                *)
(***************************************************************************)
Log(calories, protein, carbs, fat, fiber, sugar, logged_at) ==
    [calories |-> FromInt(calories), protein |-> FromInt(protein),
     carbs |-> FromInt(carbs), fat |-> FromInt(fat), fiber |-> fiber,
     sugar |-> sugar, logged_at |-> logged_at]

BalancedDay == Log(2000, 100, 250, 70, Val(FromInt(30)), Val(FromInt(20)), 1)
SweetDay    == Log(1500, 5, 300, 10, None, Val(FromInt(80)), 1)
FastDay     == Log(0, 0, 0, 0, None, None, 2)
MeatDay     == Log(4000, 200, 50, 100, Val(FromInt(10)), None, 2)
FatDay      == Log(1800, 50, 50, 150, Val(FromInt(30)), Val(FromInt(10)), 1)
\* the two halves of a day of 100 g protein, 300 g carbs and 50 g fat
ExampleLunch  == Log(1000, 40, 180, 20, Val(FromInt(15)), Val(FromInt(10)), 1)
ExampleDinner == Log(1050, 60, 120, 30, Val(FromInt(15)), Val(FromInt(10)), 1)
\* days on the edges of the bands: 15/45/40, 35/30/35 and 20/65/15 percent
LeanDay     == Log(3600, 135, 405, 160, Val(FromInt(30)), Val(FromInt(10)), 1)
ProteinDay  == Log(3600, 315, 270, 140, Val(FromInt(30)), Val(FromInt(10)), 1)
StarchDay   == Log(3600, 180, 585, 60, Val(FromInt(30)), Val(FromInt(10)), 1)

\* no log, and lists of one and two days
LogLists ==
    {<<>>, <<BalancedDay>>, <<SweetDay>>, <<FastDay>>, <<FatDay>>,
     <<BalancedDay, MeatDay>>, <<SweetDay, BalancedDay, FastDay>>,
     <<ExampleLunch, ExampleDinner>>, <<LeanDay>>, <<ProteinDay>>, <<StarchDay>>}

\* the profile's body: complete, null weight, no activity_level key, no key
InsightBodies ==
    {Profile(Val(FromInt(70)), Val(FromInt(175)), Val(30), Val(tMale),
             Val(sSedentary), Absent, Absent),
     Profile(None, Val(FromInt(175)), Val(30), Val(tMale), Val(sSedentary),
             Absent, Absent),
     Profile(Val(FromInt(70)), Val(FromInt(175)), Val(30), Val(tMale), Absent,
             Absent, Absent),
     EmptyProfile}

InsightProfiles ==
    {[body EXCEPT !.goals = goals, !.dietary_preferences = pref] :
        body \in InsightBodies,
        goals \in {Absent, None, Val(sWeightGain)},
        pref \in {Absent, None, Val(tVegetarian), Val(tKeto)}}

InsightUsers ==
    {[id |-> 1, dietary_preferences |-> pref, height |-> Val(FromInt(175)),
      weight |-> weight, age |-> Val(30), gender |-> Val(tFemale),
      activity_level |-> Val(sVeryActive), goals |-> goals] :
        pref \in {None, Val(tVegetarian)},
        weight \in {None, Val(FromInt(70))},
        goals \in {None, Val(sWeightLoss)}}

\* the day datetime.now() falls on (line 1142); logged_at is the day a row
\* was logged on
Today == 20

\* days: int = 30
DefaultDays == 30

\* the days query parameter: left out, and a week
InsightDays == {DefaultDays, 7}

\* a food_logs row: the columns get_nutrition_insights reads and the owner
FoodLog(user_id, log) ==
    [column \in DOMAIN log \cup {"user_id"} |->
        IF column = "user_id" THEN user_id ELSE log[column]]

\* a row logged before any window asked for begins
OldDay == Log(9000, 10, 10, 10, None, None, Today - DefaultDays - 5)

\* the food_logs table: an old row of the user, a row of somebody else, then
\* the user's rows of the last weeks
FoodLogs(user_id, logs) ==
    <<FoodLog(user_id, OldDay), FoodLog(user_id + 1, MeatDay)>>
    \o [n \in DOMAIN logs |-> FoodLog(user_id, logs[n])]

\* lines 1142-1151: the rows of the user logged from start_date to end_date,
\* start_date being days before now; no row is logged at an end of the window
RecentFoodLogs(table, user_id, n_days) ==
    SelectSeq(table, LAMBDA row : /\ row.user_id = user_id
                                  /\ row.logged_at >= Today - n_days
                                  /\ row.logged_at <= Today)

\* a GET /nutrition/insights request: where its handler stands, the users row
\* its session loaded and its response
InsightsRequest(pc, user, response) ==
    [op |-> "GET /nutrition/insights", pc |-> pc, user |-> user,
     response |-> response]

InitInsights ==
    /\ \/ /\ user_profile \in InsightProfiles
          /\ current_user = NoUser
          /\ user_food_logs \in LogLists
          /\ food_logs = <<>>
          /\ days = 0
          /\ inflight = <<>>
       \/ /\ user_profile = EmptyProfile
          /\ current_user \in InsightUsers
          /\ user_food_logs = <<>>
          /\ \E logs \in LogLists : food_logs = FoodLogs(current_user.id, logs)
          /\ days \in InsightDays
          /\ inflight = Append(PutRequests, InsightsRequest("received", NoUser, NoRet))
    /\ daily_calories = 0
    /\ food_database = None
    /\ food_nutrition_data = <<>>
    /\ rng = <<>>
    /\ meal_plans = <<>>
    /\ served = <<>>
    /\ user_goals = <<>>
    /\ food_items = <<>>
    /\ path_id = 0
    /\ nutrition_data_loader = None
    /\ callers = <<>>
    /\ call = "none"
    /\ ret = NoRet

\* a direct call of MealRecommender.get_nutrition_insights
GetNutritionInsights ==
    /\ call = "none"
    /\ current_user = NoUser
    /\ call' = "get_nutrition_insights"
    /\ UNCHANGED db_vars
    /\ served' = Append(served, [op |-> "get_nutrition_insights", profile |-> user_profile])
    /\ ret' = get_nutrition_insights(user_food_logs, user_profile)
    /\ UNCHANGED <<user_profile, daily_calories, food_database,
                   food_nutrition_data, user_food_logs, days, rng, current_user,
                   meal_plans>>

\* line 1140, current_user = Depends(get_current_user): the session of the
\* request loads the users row before the handler's body runs
LoadInsightsUser ==
    \E r \in DOMAIN inflight :
        /\ inflight[r].op = "GET /nutrition/insights"
        /\ inflight[r].pc = "received"
        /\ inflight' = [inflight EXCEPT ![r].pc = "loaded",
                                        ![r].user = current_user]
        /\ UNCHANGED <<user_profile, daily_calories, food_database,
                       food_nutrition_data, user_food_logs, days, rng,
                       current_user, meal_plans, food_logs, user_goals,
                       food_items, path_id, nutrition_data_loader, served,
                       callers, call, ret>>

\* lines 1142-1151: the query of the food logs of the last days
QueryFoodLogs ==
    \E r \in DOMAIN inflight :
        /\ inflight[r].op = "GET /nutrition/insights"
        /\ inflight[r].pc = "loaded"
        /\ user_food_logs' = RecentFoodLogs(food_logs, inflight[r].user.id, days)
        /\ inflight' = [inflight EXCEPT ![r].pc = "queried"]
        /\ UNCHANGED <<user_profile, daily_calories, food_database,
                       food_nutrition_data, days, rng, current_user, meal_plans,
                       food_logs, user_goals, food_items, path_id,
                       nutrition_data_loader, served, callers, call, ret>>

\* lines 1153-1171: user_dict of the row the session loaded, the call of
\* get_nutrition_insights on the rows of the query and the response; an
\* exception the handler does not catch is the framework's 500 response
GetEnhancedNutritionInsights ==
    \E r \in DOMAIN inflight :
        /\ inflight[r].op = "GET /nutrition/insights"
        /\ inflight[r].pc = "queried"
        /\ \E insights \in {get_nutrition_insights(user_food_logs,
                                                    user_dict(inflight[r].user))} :
           \E response \in {IF IsOk(insights) THEN HttpOk(insights.v)
                            ELSE HttpError(500, "Internal Server Error")} :
               /\ user_profile' = user_dict(inflight[r].user)
               /\ ret' = response
               /\ inflight' = [inflight EXCEPT ![r].pc = "answered",
                                               ![r].response = response]
        /\ call' = "GET /nutrition/insights"
        /\ served' = Append(served, [op |-> "GET /nutrition/insights",
                                     profile |-> user_dict(inflight[r].user)])
        /\ UNCHANGED <<daily_calories, food_database, food_nutrition_data,
                       user_food_logs, days, rng, current_user, meal_plans,
                       food_logs, user_goals, food_items, path_id,
                       nutrition_data_loader, callers>>

NextInsights ==
    \/ GetNutritionInsights
    \/ LoadInsightsUser \/ QueryFoodLogs \/ GetEnhancedNutritionInsights
    \/ QueryUser \/ CommitUser \/ RefreshUser

SpecInsights == InitInsights /\ [][NextInsights]_vars

(***************************************************************************)
(* A session of one MealRecommender: calls of generate_meal_plan and       *)
(* get_nutrition_insights for different users follow each other in any     *)
(* order on the one food_database.                                         *)
(***************************************************************************)
SessionCatalog == <<BeefBowl, Eggs, Tofu>>

\* a vegetarian, a meat eater and a user without a profile, with their logs
\* and the days they ask a plan for
SessionUsers ==
    <<[profile |-> Profile(Val(FromInt(70)), Val(FromInt(175)), Val(30), Val(tFemale),
                           Val(sSedentary), Absent, Val(tVegetarian)),
       logs    |-> <<SweetDay>>,
       days    |-> 1],
      [profile |-> Profile(Val(FromInt(70)), Val(FromInt(175)), Val(30), Val(tMale),
                           Val(sVeryActive), Val(sWeightGain), Val(tKeto)),
       logs    |-> <<BalancedDay, MeatDay>>,
       days    |-> 2],
      [profile |-> EmptyProfile, logs |-> <<>>, days |-> 1]>>

MaxCalls == 2

InitSession ==
    /\ user_profile = EmptyProfile
    /\ daily_calories = 0
    /\ food_database = Val(SessionCatalog)
    /\ food_nutrition_data = <<>>
    /\ user_food_logs = <<>>
    /\ days = 0
    /\ rng = <<>>
    /\ current_user = NoUser
    /\ meal_plans = <<>>
    /\ served = <<>>
    /\ food_logs = <<>>
    /\ user_goals = <<>>
    /\ food_items = <<>>
    /\ path_id = 0
    /\ inflight = <<>>
    /\ nutrition_data_loader = None
    /\ callers = SessionUsers
    /\ call = "none"
    /\ ret = NoRet

\* one caller's call of generate_meal_plan(profile, n_days) with the profile
\* dict it holds, on the catalog as the calls before left it; the call leaves
\* the catalog and the dict as its statements leave them
SessionGenerateMealPlan ==
    /\ Len(served) < MaxCalls
    /\ \E u \in DOMAIN callers :
         \E n_days \in {callers[u].days} :
         \E stream \in Draws(plan_pools(food_database, callers[u].profile, n_days)) :
           /\ user_profile' = callers[u].profile
           /\ user_food_logs' = callers[u].logs
           /\ days' = n_days
           /\ rng' = stream
           /\ ret' = generate_meal_plan(food_database, callers[u].profile,
                                        n_days, stream)
           /\ food_database' = food_database_after(food_database,
                                                    callers[u].profile, n_days,
                                                    stream)
           /\ callers' = [callers EXCEPT
                             ![u].profile =
                                 user_profile_after(food_database,
                                                    callers[u].profile, n_days,
                                                    stream)]
           /\ served' = Append(served, [op |-> "generate_meal_plan",
                                        profile |-> callers[u].profile])
    /\ call' = "generate_meal_plan"
    /\ UNCHANGED <<daily_calories, food_nutrition_data, current_user, meal_plans,
                   food_logs, user_goals, food_items, path_id, inflight,
                   nutrition_data_loader>>

\* one caller's call of get_nutrition_insights(logs, profile) with the list
\* and the dict it holds; the call leaves the catalog, the list and the dict
\* as its statements leave them
SessionGetNutritionInsights ==
    /\ Len(served) < MaxCalls
    /\ \E u \in DOMAIN callers :
         \E after \in {insights_store(Store(food_database.v, callers[u].profile,
                                            callers[u].logs))} :
           /\ user_profile' = callers[u].profile
           /\ user_food_logs' = callers[u].logs
           /\ ret' = get_nutrition_insights(callers[u].logs, callers[u].profile)
           /\ food_database' = Val(Deref(after, "self.food_database"))
           /\ callers' = [callers EXCEPT
                             ![u].profile = Deref(after, "user_profile"),
                             ![u].logs = Deref(after, "user_food_logs")]
           /\ served' = Append(served, [op |-> "get_nutrition_insights",
                                        profile |-> callers[u].profile])
    /\ call' = "get_nutrition_insights"
    /\ UNCHANGED <<daily_calories, food_nutrition_data, days, rng, current_user,
                   meal_plans, food_logs, user_goals, food_items, path_id,
                   inflight, nutrition_data_loader>>

NextSession == SessionGenerateMealPlan \/ SessionGetNutritionInsights

SpecSession == InitSession /\ [][NextSession]_vars

(***************************************************************************)
(* backend/main.py: the rows a user owns.  A table is the sequence of its  *)
(* rows in insertion order; a meal plan is [id, user_id, name], a food log *)
(* [id, user_id, food_name], a goal [id, user_id, goal_type]: the columns  *)
(* the handlers filter on and one column of the request's body.  The       *)
(* handlers are plain functions, which FastAPI runs on threads, each with  *)
(* a database session of its own: a step is one statement on the database  *)
(* of one request, and inflight holds the requests between two of their    *)
(* statements.                                                             *)
(***************************************************************************)
\* the id of a new row: the INTEGER PRIMARY KEY of SQLite, the default
\* database, is one more than the largest id in the table
NextId(table) ==
    IF table = <<>> THEN 1
    ELSE 1 + (CHOOSE m \in {table[i].id : i \in DOMAIN table} :
                  \A i \in DOMAIN table : table[i].id <= m)

\* db.query(Model).filter(Model.id == id, Model.user_id == current_user.id).first()
Owned(table, id, user_id) ==
    LET rows == SelectSeq(table, LAMBDA row : row.id = id /\ row.user_id = user_id)
    IN  IF rows = <<>> THEN None ELSE Val(rows[1])

\* the row db.refresh(row) selects, by the primary key of the object
ById(table, id) ==
    LET rows == SelectSeq(table, LAMBDA row : row.id = id)
    IN  IF rows = <<>> THEN None ELSE Val(rows[1])

\* db.add(row); db.commit()
Added(table, row) == Append(table, row)

\* db.delete(row); db.commit(): DELETE FROM table WHERE id = row.id, which is
\* no error when it matches no row
Deleted(table, id) == SelectSeq(table, LAMBDA other : other.id # id)

\* goal.goal_type = goal_type; db.commit(): UPDATE user_goals SET goal_type
\* WHERE id = goal.id
Updated(table, id, goal_type) ==
    [i \in DOMAIN table |->
        IF table[i].id = id THEN [table[i] EXCEPT !.goal_type = goal_type]
        ELSE table[i]]

HttpNoContent == [status |-> 204]

\* the response of the framework to an exception no handler catches
HttpServerError == HttpError(500, "Internal Server Error")

\* the users that send requests
CrudUsers == {[NoUser EXCEPT !.id = n] : n \in 1..2}

MaxRows == 2
MaxRowId == 2
MaxInflight == 2

PathIds == 1..MaxRowId
PlanNames == {"Cutting week"}
FoodNames == {"Tofu"}
GoalTypes == {"weight_loss", "muscle_gain"}

\* the tables have room for another row
HasRoom(table) ==
    /\ Len(meal_plans) + Len(food_logs) + Len(user_goals) < MaxRows
    /\ NextId(table) <= MaxRowId

\* another request can be between two of its statements
CanWait == Len(inflight) < MaxInflight

InitCrud ==
    /\ user_profile = EmptyProfile
    /\ daily_calories = 0
    /\ food_database = None
    /\ food_nutrition_data = <<>>
    /\ user_food_logs = <<>>
    /\ days = 0
    /\ rng = <<>>
    /\ current_user = NoUser
    /\ meal_plans = <<>>
    /\ food_logs = <<>>
    /\ user_goals = <<>>
    /\ food_items = <<>>
    /\ path_id = 0
    /\ inflight = <<>>
    /\ nutrition_data_loader = None
    /\ callers = <<>>
    /\ served = <<>>
    /\ call = "none"
    /\ ret = NoRet

\* a request between two statements: its user, its path parameter, the
\* object its session holds and where its handler stands
Request(op, user, id, row, pc) ==
    [op |-> op, user |-> user, id |-> id, row |-> row, pc |-> pc]

\* a statement of the request op of user with path parameter id ran; response
\* is NoRet until the handler returns or raises
Acted(op, user, id, response) ==
    /\ current_user' = user
    /\ path_id' = id
    /\ call' = op
    /\ ret' = response
    /\ UNCHANGED <<user_profile, daily_calories, food_database,
                   food_nutrition_data, nutrition_data_loader, callers, user_food_logs,
                   days, rng, served, food_items>>

\* the request r is answered and leaves
Left(r) ==
    inflight' = [i \in 1..(Len(inflight) - 1) |->
                    IF i < r THEN inflight[i] ELSE inflight[i + 1]]

\* db.add(row); db.commit() of a create handler
Create(op, user, row) ==
    /\ CanWait
    /\ inflight' = Append(inflight, Request(op, user, 0, row, "committed"))
    /\ Acted(op, user, 0, NoRet)

\* db.refresh(row); return row: the InvalidRequestError of a row that is gone
\* is caught nowhere, and the row that is there is returned as it is now
Refresh(op, table, r) ==
    /\ inflight[r].op = op
    /\ inflight[r].pc = "committed"
    /\ Left(r)
    /\ \E row \in {ById(table, inflight[r].row.id)} :
           Acted(op, inflight[r].user, inflight[r].id,
                 IF row.k = "None" THEN HttpServerError ELSE HttpOk(row.v))

\* the query of a get handler, its 404 and its return
Get(op, table, user, id, detail) ==
    /\ \E row \in {Owned(table, id, user.id)} :
           Acted(op, user, id,
                 IF row.k = "None" THEN HttpError(404, detail) ELSE HttpOk(row.v))
    /\ UNCHANGED inflight

\* the query of a delete or update handler and its 404
Query(op, table, user, id, detail, pc) ==
    /\ CanWait
    /\ \E row \in {Owned(table, id, user.id)} :
           IF row.k = "None"
           THEN /\ Acted(op, user, id, HttpError(404, detail))
                /\ UNCHANGED inflight
           ELSE /\ Acted(op, user, id, NoRet)
                /\ inflight' = Append(inflight, Request(op, user, id, row.v, pc))

\* db.delete(row); db.commit(); return
Delete(op, r) ==
    /\ inflight[r].op = op
    /\ inflight[r].pc = "found"
    /\ Left(r)
    /\ Acted(op, inflight[r].user, inflight[r].id, HttpNoContent)

\* POST /meal-plan/create, lines 372-384
CreateMealPlan ==
    \E user \in CrudUsers, name \in PlanNames :
        /\ HasRoom(meal_plans)
        /\ \E row \in {[id |-> NextId(meal_plans), user_id |-> user.id,
                        name |-> name]} :
               /\ meal_plans' = Added(meal_plans, row)
               /\ Create("POST /meal-plan/create", user, row)
        /\ UNCHANGED <<food_logs, user_goals>>

\* POST /meal-plan/create, lines 385-388
RefreshMealPlan ==
    \E r \in DOMAIN inflight :
        /\ Refresh("POST /meal-plan/create", meal_plans, r)
        /\ UNCHANGED <<meal_plans, food_logs, user_goals>>

\* GET /meal-plan/{meal_plan_id}
GetMealPlan ==
    \E user \in CrudUsers, meal_plan_id \in PathIds :
        /\ Get("GET /meal-plan/{meal_plan_id}", meal_plans, user, meal_plan_id,
               "Meal plan not found")
        /\ UNCHANGED <<meal_plans, food_logs, user_goals>>

\* DELETE /meal-plan/{meal_plan_id}, lines 428-437
QueryMealPlan ==
    \E user \in CrudUsers, meal_plan_id \in PathIds :
        /\ Query("DELETE /meal-plan/{meal_plan_id}", meal_plans, user,
                 meal_plan_id, "Meal plan not found", "found")
        /\ UNCHANGED <<meal_plans, food_logs, user_goals>>

\* DELETE /meal-plan/{meal_plan_id}, lines 439-444
DeleteMealPlan ==
    \E r \in DOMAIN inflight :
        /\ Delete("DELETE /meal-plan/{meal_plan_id}", r)
        /\ meal_plans' = Deleted(meal_plans, inflight[r].row.id)
        /\ UNCHANGED <<food_logs, user_goals>>

\* POST /food/log, lines 555-573
LogFood ==
    \E user \in CrudUsers, food_name \in FoodNames :
        /\ HasRoom(food_logs)
        /\ \E row \in {[id |-> NextId(food_logs), user_id |-> user.id,
                        food_name |-> food_name]} :
               /\ food_logs' = Added(food_logs, row)
               /\ Create("POST /food/log", user, row)
        /\ UNCHANGED <<meal_plans, user_goals>>

\* POST /food/log, lines 574-577
RefreshFoodLog ==
    \E r \in DOMAIN inflight :
        /\ Refresh("POST /food/log", food_logs, r)
        /\ UNCHANGED <<meal_plans, food_logs, user_goals>>

\* GET /food/log/{log_id}
GetFoodLog ==
    \E user \in CrudUsers, log_id \in PathIds :
        /\ Get("GET /food/log/{log_id}", food_logs, user, log_id,
               "Food log not found")
        /\ UNCHANGED <<meal_plans, food_logs, user_goals>>

\* DELETE /food/log/{log_id}, lines 638-647
QueryFoodLog ==
    \E user \in CrudUsers, log_id \in PathIds :
        /\ Query("DELETE /food/log/{log_id}", food_logs, user, log_id,
                 "Food log not found", "found")
        /\ UNCHANGED <<meal_plans, food_logs, user_goals>>

\* DELETE /food/log/{log_id}, lines 649-654
DeleteFoodLog ==
    \E r \in DOMAIN inflight :
        /\ Delete("DELETE /food/log/{log_id}", r)
        /\ food_logs' = Deleted(food_logs, inflight[r].row.id)
        /\ UNCHANGED <<meal_plans, user_goals>>

\* POST /goals, lines 921-933
CreateUserGoal ==
    \E user \in CrudUsers, goal_type \in GoalTypes :
        /\ HasRoom(user_goals)
        /\ \E row \in {[id |-> NextId(user_goals), user_id |-> user.id,
                        goal_type |-> goal_type]} :
               /\ user_goals' = Added(user_goals, row)
               /\ Create("POST /goals", user, row)
        /\ UNCHANGED <<meal_plans, food_logs>>

\* POST /goals, lines 934-938
RefreshUserGoal ==
    \E r \in DOMAIN inflight :
        /\ Refresh("POST /goals", user_goals, r)
        /\ UNCHANGED <<meal_plans, food_logs, user_goals>>

\* PUT /goals/{goal_id}, lines 963-973: the query, and the object with the
\* goal_type of the body assigned, which the session holds with the value it
\* loaded
QueryGoalToUpdate ==
    \E user \in CrudUsers, goal_id \in PathIds, goal_type \in GoalTypes :
        /\ CanWait
        /\ \E goal \in {Owned(user_goals, goal_id, user.id)} :
               IF goal.k = "None"
               THEN /\ Acted("PUT /goals/{goal_id}", user, goal_id,
                             HttpError(404, "Goal not found"))
                    /\ UNCHANGED inflight
               ELSE /\ Acted("PUT /goals/{goal_id}", user, goal_id, NoRet)
                    /\ inflight' =
                           Append(inflight,
                                  Request("PUT /goals/{goal_id}", user, goal_id,
                                          [goal.v EXCEPT !.goal_type = goal_type],
                                          IF goal.v.goal_type = goal_type
                                          THEN "unchanged" ELSE "assigned"))
        /\ UNCHANGED <<meal_plans, food_logs, user_goals>>

\* PUT /goals/{goal_id}, line 980: db.commit() emits no UPDATE for an object
\* that did not change, and raises StaleDataError when the UPDATE matches no row
UpdateUserGoal ==
    \E r \in DOMAIN inflight :
        /\ inflight[r].op = "PUT /goals/{goal_id}"
        /\ inflight[r].pc \in {"unchanged", "assigned"}
        /\ IF inflight[r].pc = "unchanged"
           THEN /\ inflight' = [inflight EXCEPT ![r].pc = "committed"]
                /\ Acted(inflight[r].op, inflight[r].user, inflight[r].id, NoRet)
                /\ UNCHANGED user_goals
           ELSE IF ById(user_goals, inflight[r].row.id).k = "None"
           THEN /\ Left(r)
                /\ Acted(inflight[r].op, inflight[r].user, inflight[r].id,
                         HttpServerError)
                /\ UNCHANGED user_goals
           ELSE /\ inflight' = [inflight EXCEPT ![r].pc = "committed"]
                /\ Acted(inflight[r].op, inflight[r].user, inflight[r].id, NoRet)
                /\ user_goals' = Updated(user_goals, inflight[r].row.id,
                                         inflight[r].row.goal_type)
        /\ UNCHANGED <<meal_plans, food_logs>>

\* PUT /goals/{goal_id}, lines 981-986
RefreshUpdatedGoal ==
    \E r \in DOMAIN inflight :
        /\ Refresh("PUT /goals/{goal_id}", user_goals, r)
        /\ UNCHANGED <<meal_plans, food_logs, user_goals>>

\* DELETE /goals/{goal_id}, lines 994-1003
QueryGoalToDelete ==
    \E user \in CrudUsers, goal_id \in PathIds :
        /\ Query("DELETE /goals/{goal_id}", user_goals, user, goal_id,
                 "Goal not found", "found")
        /\ UNCHANGED <<meal_plans, food_logs, user_goals>>

\* DELETE /goals/{goal_id}, lines 1005-1012
DeleteUserGoal ==
    \E r \in DOMAIN inflight :
        /\ Delete("DELETE /goals/{goal_id}", r)
        /\ user_goals' = Deleted(user_goals, inflight[r].row.id)
        /\ UNCHANGED <<meal_plans, food_logs>>

NextCrud ==
    \/ CreateMealPlan \/ RefreshMealPlan \/ GetMealPlan
    \/ QueryMealPlan \/ DeleteMealPlan
    \/ LogFood \/ RefreshFoodLog \/ GetFoodLog
    \/ QueryFoodLog \/ DeleteFoodLog
    \/ CreateUserGoal \/ RefreshUserGoal
    \/ QueryGoalToUpdate \/ UpdateUserGoal \/ RefreshUpdatedGoal
    \/ QueryGoalToDelete \/ DeleteUserGoal

SpecCrud == InitCrud /\ [][NextCrud]_vars

(***************************************************************************)
(* backend/main.py: the food_items table.  GET /food/barcode/{barcode} and *)
(* GET /food/search insert into it, and so does populate_food_database,    *)
(* which main.py starts on a thread when it is imported.  Each request     *)
(* runs on a thread of its own with a database session of its own, so the  *)
(* requests interleave between a query, the commit that follows it and the *)
(* refresh after the commit.  A food item is [id, name, brand, barcode],   *)
(* brand and barcode nullable; the column barcode is unique.  No handler   *)
(* deletes a food item.                                                    *)
(***************************************************************************)
Digits == "0123456789"

\* c.isdigit(), c a string of one character
IsDigit(c) == \E i \in 1..Len(Digits) : SubSeq(Digits, i, i) = c

\* ''.join(c for c in barcode if c.isdigit()), from character i on
RECURSIVE DigitsFrom(_, _)
DigitsFrom(barcode, i) ==
    IF i > Len(barcode) THEN ""
    ELSE (IF IsDigit(SubSeq(barcode, i, i)) THEN SubSeq(barcode, i, i) ELSE "")
         \o DigitsFrom(barcode, i + 1)

\* int(digits) of the first n digits; int('') raises ValueError
RECURSIVE IntOf(_, _)
IntOf(digits, n) ==
    IF n = 0 THEN 0
    ELSE 10 * IntOf(digits, n - 1)
         + (CHOOSE d \in 0..9 : SubSeq(Digits, d + 1, d + 1) = SubSeq(digits, n, n))

\* what the NutritionDataLoader of main.py answers: get_food_items(), the dict
\* or None of get_food_nutrition(name) for each of these names, and
\* search_foods("chicken", 1).  A dict is the list of its keys
Loader(names, nutrition, chicken) ==
    [food_items |-> names, nutrition |-> nutrition, chicken |-> chicken]

NutritionKeys == <<"calories", "protein", "carbohydrates", "fats">>

\* a loader that loaded three foods, one that loaded nothing (load_data
\* failed, lines 55-56), and two that have a name without nutrition
LoaderStates ==
    {Loader(<<"Apple", "Banana", "Chicken Breast">>,
            [name \in {"Apple", "Banana", "Chicken Breast"} |-> PyDict(NutritionKeys)],
            <<[label |-> Val("Chicken Breast")]>>),
     Loader(<<>>, [name \in {} |-> PyNone], <<>>),
     Loader(<<"Apple", "Banana">>,
            [name \in {"Apple", "Banana"} |->
                IF name = "Apple" THEN PyNone ELSE PyDict(NutritionKeys)],
            <<>>),
     Loader(<<"Apple", "Banana">>,
            [name \in {"Apple", "Banana"} |->
                IF name = "Apple" THEN PyDict(<<>>) ELSE PyDict(NutritionKeys)],
            <<[label |-> Absent]>>)}

\* BarcodeScannerModel.lookup_barcode: the first six digits pick a food of a
\* food list that is not empty, which is the result if the nutrition of the food
\* is neither None nor empty; the ValueError of a barcode without digits is
\* caught and answered with None
lookup_barcode(data_loader, barcode) ==
    LET digits == DigitsFrom(barcode, 1)
        n == IF Len(digits) < 6 THEN Len(digits) ELSE 6
        food_classes == data_loader.food_items
        food_name == food_classes[(IntOf(digits, n) % Len(food_classes)) + 1]
    IN  IF digits = "" THEN None
        ELSE IF food_classes = <<>> THEN None
        ELSE IF Falsy(data_loader.nutrition[food_name]) THEN None
        ELSE Val([food_name |-> food_name, barcode |-> barcode])

\* sample_food.get("label", "Generic Food") of line 493
generic_label(data_loader) ==
    IF data_loader.chicken = <<>> THEN "Generic Food"
    ELSE IF data_loader.chicken[1].label.k = "val" THEN data_loader.chicken[1].label.v
    ELSE "Generic Food"

FoodItem(name, brand, barcode) == [name |-> name, brand |-> brand, barcode |-> barcode]

\* new_food: of the scanner's result (lines 466-479), or the generic item
\* (lines 494-510), whose name is the label of a food of the loader
new_food(data_loader, barcode, barcode_result) ==
    IF barcode_result.k = "val"
    THEN FoodItem(barcode_result.v.food_name, Val("Detected Brand"), Val(barcode))
    ELSE FoodItem(generic_label(data_loader), Val("Generic Brand"), Val(barcode))

\* db.query(FoodItem).filter(FoodItem.barcode == barcode).first()
ByBarcode(table, barcode) ==
    LET rows == SelectSeq(table, LAMBDA row : row.barcode = Val(barcode))
    IN  IF rows = <<>> THEN None ELSE Val(rows[1])

\* the row of a food item
Stored(id, food) ==
    [id |-> id, name |-> food.name, brand |-> food.brand, barcode |-> food.barcode]

\* db.add(db_food_item); db.commit(): the row with its id, or the
\* IntegrityError of the unique index on barcode
Committed(table, food) ==
    IF \E i \in DOMAIN table : table[i].barcode = food.barcode
    THEN Raise("IntegrityError")
    ELSE Ok(Stored(NextId(table), food))

\* db.add(food_item) for every row, then db.commit(): the rows get the next ids
RECURSIVE AddedAll(_, _)
AddedAll(table, foods) ==
    IF foods = <<>> THEN table
    ELSE AddedAll(Append(table, Stored(NextId(table), foods[1])), Tail(foods))

\* DataFrame.head(n), Query.limit(n)
FirstRows(rows, n) == SubSeq(rows, 1, IF Len(rows) < n THEN Len(rows) ELSE n)

\* FoodItem.name.ilike('%query%'), and str.contains(query, case=False) for a
\* query of letters
Matching(rows, query) ==
    SelectSeq(rows, LAMBDA row : Contains(Lower(row.name), Lower(query)))

\* FoodItem(name=row['name'], ...) of the rows of food_nutrition_data: neither
\* brand nor barcode is given
FoodItemsOf(rows) == [i \in DOMAIN rows |-> FoodItem(rows[i].name, None, None)]

PopulateLimit == 100

MaxLookups == 3

\* a barcode with digits and one without
Barcodes == {"4006381-333931", "abc"}
\* the query and the limit of a search
SearchQueries == {<<"a", 1>>, <<"kiwi", 10>>}

\* a request: where its handler stands, the ids of the rows its session
\* committed, and its response once it has one
Lookup(pc, barcode, response) ==
    [op |-> "GET /food/barcode/{barcode}", pc |-> pc, barcode |-> barcode,
     ids |-> <<>>, response |-> response]

Search(pc, query, limit, response) ==
    [op |-> "GET /food/search", pc |-> pc, query |-> query, limit |-> limit,
     ids |-> <<>>, response |-> response]

\* the thread of populate_food_database
PopulateThread(pc) == [op |-> "populate_food_database", pc |-> pc]

Received ==
    {Lookup("received", b, NoRet) : b \in Barcodes}
    \cup {Search("received", q[1], q[2], NoRet) : q \in SearchQueries}

InitBarcode ==
    /\ user_profile = EmptyProfile
    /\ daily_calories = 0
    /\ food_database = None
    /\ food_nutrition_data = DefaultFoods
    /\ nutrition_data_loader \in LoaderStates
    /\ callers = <<>>
    /\ user_food_logs = <<>>
    /\ days = 0
    /\ rng = <<>>
    /\ current_user = [NoUser EXCEPT !.id = 1]
    /\ meal_plans = <<>>
    /\ food_logs = <<>>
    /\ user_goals = <<>>
    /\ food_items = <<>>
    /\ path_id = 0
    /\ inflight \in {Append(requests, PopulateThread("started")) :
                        requests \in [1..MaxLookups -> Received]}
    /\ served = <<>>
    /\ call = "none"
    /\ ret = NoRet

\* what a step of a request or of the thread leaves alone
BarcodeFrame ==
    UNCHANGED <<user_profile, daily_calories, food_database, food_nutrition_data,
                nutrition_data_loader, callers, user_food_logs, days, rng, current_user,
                meal_plans, food_logs, user_goals, served>>

\* request r got its response
Responded(r, response) ==
    /\ inflight' = [inflight EXCEPT ![r].pc = "answered", ![r].response = response]
    /\ path_id' = r
    /\ call' = inflight[r].op
    /\ ret' = response

\* request r, or the thread, moved on without a response
Moved(r, pc) ==
    /\ inflight' = [inflight EXCEPT ![r].pc = pc]
    /\ UNCHANGED <<path_id, call, ret>>

\* db.commit() of request r inserted the rows of these ids
Saved(r, ids) ==
    /\ inflight' = [inflight EXCEPT ![r].pc = "committed", ![r].ids = ids]
    /\ UNCHANGED <<path_id, call, ret>>

\* db.refresh(item) of the rows of these ids, which no handler deletes
Refreshed(table, ids) == [i \in DOMAIN ids |-> ById(table, ids[i]).v]

\* lines 454-460: the query, and the return of the item it found
QueryFoodByBarcode ==
    \E r \in DOMAIN inflight :
        /\ inflight[r].op = "GET /food/barcode/{barcode}"
        /\ inflight[r].pc = "received"
        /\ \E food_item \in {ByBarcode(food_items, inflight[r].barcode)} :
               IF food_item.k = "val"
               THEN Responded(r, HttpOk(food_item.v))
               ELSE Moved(r, "not found")
        /\ UNCHANGED food_items
        /\ BarcodeFrame

\* lines 463-484 and 491-513: the scanner's lookup and the insert of the new
\* item; the IntegrityError of db.commit() is caught nowhere and becomes the
\* framework's 500 response
SaveFoodByBarcode ==
    \E r \in DOMAIN inflight :
        /\ inflight[r].op = "GET /food/barcode/{barcode}"
        /\ inflight[r].pc = "not found"
        /\ \E db_food_item \in
                 {Committed(food_items,
                            new_food(nutrition_data_loader, inflight[r].barcode,
                                     lookup_barcode(nutrition_data_loader,
                                                    inflight[r].barcode)))} :
               IF IsOk(db_food_item)
               THEN /\ food_items' = Added(food_items, db_food_item.v)
                    /\ Saved(r, <<db_food_item.v.id>>)
               ELSE /\ UNCHANGED food_items
                    /\ Responded(r, HttpServerError)
        /\ BarcodeFrame

\* lines 485-489 and 514-518: db.refresh(db_food_item) and the return of the
\* item
RefreshFoodByBarcode ==
    \E r \in DOMAIN inflight :
        /\ inflight[r].op = "GET /food/barcode/{barcode}"
        /\ inflight[r].pc = "committed"
        /\ Responded(r, HttpOk(Refreshed(food_items, inflight[r].ids)[1]))
        /\ UNCHANGED food_items
        /\ BarcodeFrame

\* search_food, lines 664-679: the rows of the table that match are returned;
\* if there is none and no row of food_nutrition_data matches, the empty list
SearchFood ==
    \E r \in DOMAIN inflight :
        /\ inflight[r].op = "GET /food/search"
        /\ inflight[r].pc = "received"
        /\ \E search_results \in {FirstRows(Matching(food_items, inflight[r].query),
                                            inflight[r].limit)} :
               IF search_results # <<>>
               THEN Responded(r, HttpOk(search_results))
               ELSE IF Matching(food_nutrition_data, inflight[r].query) = <<>>
               THEN Responded(r, HttpOk(<<>>))
               ELSE Moved(r, "filtered")
        /\ UNCHANGED food_items
        /\ BarcodeFrame

\* search_food, lines 681-698: the first limit rows of food_nutrition_data
\* that match are inserted
SaveSearchedFoods ==
    \E r \in DOMAIN inflight :
        /\ inflight[r].op = "GET /food/search"
        /\ inflight[r].pc = "filtered"
        /\ \E saved \in {AddedAll(food_items,
                                  FoodItemsOf(FirstRows(Matching(food_nutrition_data,
                                                                 inflight[r].query),
                                                        inflight[r].limit)))} :
               /\ food_items' = saved
               /\ Saved(r, [i \in 1..(Len(saved) - Len(food_items)) |->
                               saved[Len(food_items) + i].id])
        /\ BarcodeFrame

\* search_food, lines 700-706: db.refresh(item) for every saved item, and the
\* return of the items
RefreshSearchedFoods ==
    \E r \in DOMAIN inflight :
        /\ inflight[r].op = "GET /food/search"
        /\ inflight[r].pc = "committed"
        /\ Responded(r, HttpOk(Refreshed(food_items, inflight[r].ids)))
        /\ UNCHANGED food_items
        /\ BarcodeFrame

\* populate_food_database, lines 97-98: the count of the table
CountFoodItems ==
    \E r \in DOMAIN inflight :
        /\ inflight[r].op = "populate_food_database"
        /\ inflight[r].pc = "started"
        /\ Moved(r, IF Len(food_items) = 0 THEN "empty" ELSE "done")
        /\ UNCHANGED food_items
        /\ BarcodeFrame

\* populate_food_database, lines 102-114: the first 100 rows of
\* food_nutrition_data are inserted
PopulateFoodDatabase ==
    \E r \in DOMAIN inflight :
        /\ inflight[r].op = "populate_food_database"
        /\ inflight[r].pc = "empty"
        /\ Moved(r, "done")
        /\ food_items' = AddedAll(food_items,
                                  FoodItemsOf(FirstRows(food_nutrition_data,
                                                        PopulateLimit)))
        /\ BarcodeFrame

NextBarcode ==
    \/ QueryFoodByBarcode \/ SaveFoodByBarcode \/ RefreshFoodByBarcode
    \/ SearchFood \/ SaveSearchedFoods \/ RefreshSearchedFoods
    \/ CountFoodItems \/ PopulateFoodDatabase

SpecBarcode == InitBarcode /\ [][NextBarcode]_vars

(***************************************************************************)
(* The claims.                                                             *)
(***************************************************************************)
\* |n|
Abs(n) == IF n < 0 THEN -n ELSE n

\* the energy of the macro grams of a _calculate_macros result
GramCalories(m) == 4 * m.protein_g + 4 * m.carbs_g + 9 * m.fat_g

\* the meat words of the specification
MeatWords == {"beef", "chicken", "pork", "turkey", "meat", "fish", "salmon"}

NamesMeat(name) == \E w \in MeatWords : Contains(Lower(name), w)

\* the dietary preference, a dict entry or a nullable column, says vegetarian
IsVegetarian(entry) == entry.k = "val" /\ Contains(Lower(entry.v), "vegetarian")

\* the names of all meals of a plan dict
MealNames(plan) ==
    {plan.items[i].plan.meals[j].name :
        i \in DOMAIN plan.items, j \in 1..Len(meal_distribution)}

\* C1: for every goal text and every calorie value, the three percentages
\* _calculate_macros returns sum to exactly 100, in whatever order they are
\* added
C1_PercentagesSumTo100 ==
    (call = "_calculate_macros" /\ IsOk(ret)) =>
        /\ FAdd(FAdd(ret.v.protein_pct, ret.v.carbs_pct), ret.v.fat_pct) = FromInt(100)
        /\ FAdd(ret.v.protein_pct, FAdd(ret.v.carbs_pct, ret.v.fat_pct)) = FromInt(100)
        /\ FAdd(FAdd(ret.v.protein_pct, ret.v.fat_pct), ret.v.carbs_pct) = FromInt(100)

\* the weight-gain split, whose carbohydrate percentage 0.55 * 100 is not 55
C1_Witness ==
    /\ call = "_calculate_macros"
    /\ IsOk(ret)
    /\ FLt(FromInt(55), ret.v.carbs_pct)
    /\ ret.v.protein_pct = FromInt(25)

\* C2 as stated: for every calorie total C > 0 and every goal split the energy
\* of the returned grams, 4 * protein_g + 4 * carbs_g + 9 * fat_g, is within 3
\* of C
C2_GramsWithin3 ==
    (call = "_calculate_macros" /\ IsOk(ret) /\ daily_calories > 0) =>
        Abs(GramCalories(ret.v) - daily_calories) <= 3

\* C2: for every calorie total C > 0 and every goal split the energy of the
\* returned grams is within 8 of C
C2_GramsWithin8 ==
    (call = "_calculate_macros" /\ IsOk(ret) /\ daily_calories > 0) =>
        Abs(GramCalories(ret.v) - daily_calories) <= 8

\* a total whose grams are 8 kcal off
C2_Witness ==
    /\ call = "_calculate_macros"
    /\ IsOk(ret)
    /\ daily_calories > 0
    /\ Abs(GramCalories(ret.v) - daily_calories) = 8

\* the profile's weight, height and age are numbers above zero
ValidBody(profile) ==
    /\ profile.weight.k = "val" /\ FLt(FZero, profile.weight.v)
    /\ profile.height.k = "val" /\ FLt(FZero, profile.height.v)
    /\ profile.age.k = "val" /\ profile.age.v > 0

\* C3: with weight, height, age, gender and goals fixed and valid, the calorie
\* estimate does not decrease from an activity level to any later one of the
\* order sedentary, lightly_active, moderately_active, very_active, extra_active
C3_MonotoneInActivity ==
    (call = "_calculate_daily_calories" /\ IsOk(ret) /\ ValidBody(user_profile)) =>
        \A i \in DOMAIN ActivityOrder :
            user_profile.activity_level = Val(ActivityOrder[i]) =>
                \A j \in i..Len(ActivityOrder) :
                    ret.v <= _calculate_daily_calories(
                                 [user_profile EXCEPT
                                      !.activity_level = Val(ActivityOrder[j])]).v

\* C4: for every days >= 1 and a non-empty catalog, the plan generate_meal_plan
\* returns has exactly `days` day plans, the i-th (from 0) labelled with the
\* weekday at index i mod 7
C4_DayCountIsHorizon ==
    (call = "generate_meal_plan" /\ ret.kind = "dict" /\ days >= 1) =>
        /\ Len(ret.items) = days
        /\ \A i \in DOMAIN ret.items :
               ret.items[i].day = days_of_week[((i - 1) % 7) + 1]

\* the plan a request returned: a direct call's dict, a handler's 200 body
ReturnedPlan ==
    IF call = "generate_meal_plan" THEN ret ELSE ret.body

PlanReturned ==
    \/ call = "generate_meal_plan" /\ ret.kind = "dict"
    \/ call = "generate_ai_meal_plan" /\ ret.status = 200

\* C5: for a profile whose dietary preference contains "vegetarian" in any
\* letter case, no meal of a plan generate_meal_plan returns has a name that
\* contains a meat word, for every catalog and every random choice, the
\* fallback pool included
C5_VegetarianPlanHasNoMeat ==
    (PlanReturned /\ IsVegetarian(user_profile.dietary_preferences)) =>
        \A name \in MealNames(ReturnedPlan) : ~NamesMeat(name)

\* the catalog has a meat bowl, which alone is a lunch food, and the lunch of
\* the vegetarian's first day is drawn from the fallback pool
C5_Witness ==
    /\ call = "generate_meal_plan"
    /\ ret.kind = "dict"
    /\ user_profile.dietary_preferences = Val(tVegetarian)
    /\ food_database = Val(<<BeefBowl, Eggs, Tofu>>)
    /\ _filter_by_meal_type(<<BeefBowl, Eggs, Tofu>>, "lunch") = <<BeefBowl>>
    /\ ret.items[1].plan.meals[2].type = "lunch"
    /\ ret.items[1].plan.meals[2].name = "Tofu"

\* C6: for a user whose dietary preference, in the users row the request
\* loaded, contains "vegetarian", no meal of the weekly plan GET
\* /meal-plan/generate returns has a name that contains beef, chicken, pork,
\* turkey, meat, fish or salmon
C6_HandlerPlanHasNoMeat ==
    \A r \in DOMAIN inflight :
        (/\ inflight[r].op = "GET /meal-plan/generate"
         /\ inflight[r].pc = "answered"
         /\ inflight[r].response.status = 200
         /\ IsVegetarian(inflight[r].user.dietary_preferences)) =>
            \A name \in MealNames(inflight[r].response.body) : ~NamesMeat(name)

\* C7: get_nutrition_insights on an empty log list returns a report with
\* exactly two insights, general then hydration, and protein, carbs and fat
\* percentages all zero
C7_EmptyLogReport ==
    (call = "get_nutrition_insights" /\ user_food_logs = <<>>) =>
        /\ IsOk(ret)
        /\ Len(ret.v.insights) = 2
        /\ ret.v.insights[1].category = "general"
        /\ ret.v.insights[2].category = "hydration"
        /\ "macronutrient_ratios" \in DOMAIN ret.v
        /\ ret.v.macronutrient_ratios =
               [protein_percentage |-> FZero, carbs_percentage |-> FZero,
                fat_percentage |-> FZero]

\* C8: _calculate_daily_calories returns an integer and raises nothing,
\* whichever of weight, height, age, gender, activity_level and goals are
\* missing from the dict or null
C8_CaloriesNeverRaise ==
    call = "_calculate_daily_calories" => IsOk(ret) /\ ret.v \in Int

\* C9: get_nutrition_insights returns a report and raises nothing for every
\* non-empty log list and every profile, fields missing or null included, also
\* when it is called by GET /nutrition/insights
C9_InsightsNeverRaise ==
    /\ (call = "get_nutrition_insights" /\ user_food_logs # <<>>) => IsOk(ret)
    /\ (call = "GET /nutrition/insights" /\ user_food_logs # <<>>) =>
           ret.status = 200

\* no row of the catalog survives the dietary filter of the profile
NoFoodSurvives ==
    /\ food_database.k = "val"
    /\ \A i \in DOMAIN food_database.v :
           /\ IsVegetarian(user_profile.dietary_preferences)
           /\ NamesMeat(food_database.v[i].label)

\* C10: when the catalog is empty or no record survives the preference filter,
\* generate_meal_plan with days >= 1 returns None, never a plan, empty or
\* partly filled; the handler generate_ai_meal_plan reports it as the error
\* 500 and stores no plan, and the request GET /meal-plan/ai-generate is
\* answered with an error and stores no plan
C10_NoFoodIsAFailure ==
    (NoFoodSurvives /\ days >= 1) =>
        /\ call = "generate_meal_plan" => ret = PyNone
        /\ call = "generate_ai_meal_plan" =>
               ret.status = 500 /\ "body" \notin DOMAIN ret /\ meal_plans = <<>>
        /\ call = "GET /meal-plan/ai-generate" =>
               ret.status >= 400 /\ "body" \notin DOMAIN ret /\ meal_plans = <<>>

\* the handler, called for a vegetarian against a catalog of meat only, raises
\* the error 500
C10_Witness ==
    /\ call = "generate_ai_meal_plan"
    /\ food_database = Val(<<BeefBowl, Meatloaf>>)
    /\ IsVegetarian(user_profile.dietary_preferences)
    /\ NoFoodSurvives
    /\ ret = HttpError(500, "Failed to generate meal plan")

\* a weight, height or age that is present and below zero
HasInvalidField(profile) ==
    \/ profile.weight.k = "val" /\ FLt(profile.weight.v, FZero)
    \/ profile.height.k = "val" /\ FLt(profile.height.v, FZero)
    \/ profile.age.k = "val" /\ profile.age.v < 0

\* C11: a profile with a present but invalid field (a negative weight, height
\* or age) makes _calculate_daily_calories end in an error; it never returns a
\* calorie value computed from the invalid field
C11_InvalidFieldIsRejected ==
    (call = "_calculate_daily_calories" /\ HasInvalidField(user_profile)) => ~IsOk(ret)

\* the calories of all meals of a plan dict
MealCalorieValues(plan) ==
    {plan.items[i].plan.meals[j].calories :
        i \in DOMAIN plan.items, j \in 1..Len(meal_distribution)}

\* every record of the catalog has calories >= 0
CatalogIsNonNegative ==
    /\ food_database.k = "val"
    /\ \A i \in DOMAIN food_database.v : FLe(FZero, food_database.v[i].calories)

\* C12: for a profile with weight, height and age above zero and a catalog
\* whose records have calories >= 0, every meal of every plan
\* generate_meal_plan returns has calories >= 0
C12_MealCaloriesNonNegative ==
    (call = "generate_meal_plan" /\ ret.kind = "dict" /\ ValidBody(user_profile)
         /\ CatalogIsNonNegative) =>
        \A calories \in MealCalorieValues(ret) : calories >= 0

\* the report of a direct call of get_nutrition_insights on a non-empty list
ReportReturned ==
    /\ call = "get_nutrition_insights"
    /\ IsOk(ret)
    /\ "food_recommendations" \in DOMAIN ret.v

\* the insight of the too-high rule of carbs (> 65) and of fat (> 40), and of
\* the too-low rule of carbs (< 30) and of fat (< 15)
TooHighInsight(category) ==
    IF category = "carbs" THEN Head(CarbsInsights(FromInt(100)))
    ELSE Head(FatInsights(FromInt(100)))

TooLowInsight(category) ==
    IF category = "carbs" THEN Head(CarbsInsights(FZero))
    ELSE Head(FatInsights(FZero))

Fired(insight) == InList(insight, ret.v.insights)

ReduceList(category) ==
    IF category = "carbs"
    THEN <<"Replace refined grains with vegetables",
           "Choose lower-carb fruits like berries", "Include more leafy greens">>
    ELSE <<"Choose lean protein sources", "Use olive oil instead of butter",
           "Include fatty fish like salmon">>

IncreaseList(category) ==
    IF category = "carbs"
    THEN <<"Oatmeal (complex carbs with fiber)",
           "Sweet potatoes (nutrient-dense carb source)",
           "Brown rice (whole grain carb source)", "Bananas (carbs with potassium)",
           "Whole grain bread (complex carbs)">>
    ELSE <<"Avocados (healthy monounsaturated fats)",
           "Nuts (healthy fats and protein)", "Olive oil (healthy cooking oil)",
           "Chia seeds (omega-3 fatty acids)",
           "Fatty fish like salmon (omega-3 sources)">>

\* the list starts in the recommendations, unless the ten places were taken
\* before its turn
Emits(list) ==
    \/ InList(list[1], ret.v.food_recommendations)
    \/ Len(ret.v.food_recommendations) = MaxRecommendations

Omits(list) ==
    \A i \in DOMAIN list : ~InList(list[i], ret.v.food_recommendations)

\* C13: for carbs and for fat, the recommendations hold the "reduce" list and
\* not the "increase" list when the too-high insight of the category fired,
\* and the "increase" list and not the "reduce" list when the too-low one did
C13_ListFollowsFiredRule ==
    ReportReturned =>
        \A category \in {"carbs", "fat"} :
            /\ Fired(TooHighInsight(category)) =>
                   Emits(ReduceList(category)) /\ Omits(IncreaseList(category))
            /\ Fired(TooLowInsight(category)) =>
                   Emits(IncreaseList(category)) /\ Omits(ReduceList(category))

\* a report was returned, by a direct call or in a 200 response
InsightsReported ==
    \/ ReportReturned
    \/ call = "GET /nutrition/insights" /\ ret.status = 200
           /\ "food_recommendations" \in DOMAIN ret.body

TheReport == IF call = "get_nutrition_insights" THEN ret.v ELSE ret.body

\* the insights of priority medium or high
FiredInsights(report) ==
    SelectSeq(report.insights, LAMBDA insight : insight.priority \in {"high", "medium"})

\* C14: the list _generate_food_recommendations returns never has more than 10
\* items, and it is the fixed generic list of 5 items when no insight of
\* priority medium or high fired
C14_AtMostTenOrGeneric ==
    InsightsReported =>
        /\ Len(TheReport.food_recommendations) <= 10
        /\ FiredInsights(TheReport) = <<>> =>
               /\ TheReport.food_recommendations = GeneralFoods
               /\ Len(TheReport.food_recommendations) = 5

\* five categories fired, whose lists hold 25 items, and ten were returned
C14_Witness ==
    /\ ReportReturned
    /\ Len(FiredInsights(ret.v)) = 5
    /\ Len(ret.v.food_recommendations) = 10
    /\ ret.v.food_recommendations[10] = "Whole grain bread (complex carbs)"

\* weight, height, age, gender and activity_level are in the dict and not None
BodyIsPresent(profile) ==
    \A key \in {"weight", "height", "age", "gender", "activity_level"} :
        profile[key].k = "val"

NoGoal(profile) == ~Has(profile, "goals") \/ profile.goals = Val("")

\* n / d truncated toward zero, d > 0
TruncDiv(n, d) == IF n >= 0 THEN n \div d ELSE -((-n) \div d)

\* the activity factor in thousandths, 1.55 for an unknown level
FactorThousandths(activity_level) ==
    CASE activity_level = "sedentary" -> 1200
      [] activity_level = "lightly_active" -> 1375
      [] activity_level = "moderately_active" -> 1550
      [] activity_level = "very_active" -> 1725
      [] activity_level = "extra_active" -> 1900
      [] OTHER -> 1550

\* (10*weight + 6.25*height - 5*age + s) * factor truncated toward zero, in
\* exact arithmetic on whole weights and heights: four times the base is
\* 40*weight + 25*height - 20*age + 4*s
ExactEstimate(profile) ==
    LET s == IF Lower(profile.gender.v) = "male" THEN 5 ELSE -161
        base4 == 40 * PyInt(profile.weight.v) + 25 * PyInt(profile.height.v)
                 - 20 * profile.age.v + 4 * s
    IN  TruncDiv(base4 * FactorThousandths(profile.activity_level.v), 4000)

\* the worked example: 70 kg, 175 cm, 30 years, male, moderately_active
IsWorkedExample(profile) ==
    /\ profile.weight.v = FromInt(70)
    /\ profile.height.v = FromInt(175)
    /\ profile.age.v = 30
    /\ Lower(profile.gender.v) = "male"
    /\ profile.activity_level.v = "moderately_active"

\* C15 as stated: with weight, height, age, gender and activity_level present
\* and no goal, _calculate_daily_calories returns
\* (10*weight + 6.25*height - 5*age + s) times the activity factor, truncated
\* toward zero, with s = 5 for gender "male" in any letter case and -161
\* otherwise; the worked example gives 2660
C15_MifflinTruncated ==
    (call = "_calculate_daily_calories" /\ BodyIsPresent(user_profile)
         /\ NoGoal(user_profile)) =>
        /\ ret = Ok(ExactEstimate(user_profile))
        /\ IsWorkedExample(user_profile) => ret = Ok(2660)

\* C15 with the example's value corrected: the formula holds as stated, and
\* the worked example gives 2555, which is 1648.75 * 1.55 = 2555.5625
\* truncated
C15_MifflinTruncatedTo2555 ==
    (call = "_calculate_daily_calories" /\ BodyIsPresent(user_profile)
         /\ NoGoal(user_profile)) =>
        /\ ret = Ok(ExactEstimate(user_profile))
        /\ IsWorkedExample(user_profile) => ret = Ok(2555)

\* the worked example, its gender written "Male" and its goals ""
C15_Witness ==
    /\ call = "_calculate_daily_calories"
    /\ user_profile = Profile(Val(FromInt(70)), Val(FromInt(175)), Val(30), Val("Male"),
                              Val("moderately_active"), Val(""), Absent)
    /\ ret = Ok(2555)

\* C16 as stated: _calculate_macros on 2660 kcal with no goal returns
\* protein_g = 166, carbs_g = 333 and fat_g = 74
C16_GramsOf2660 ==
    (call = "_calculate_macros" /\ daily_calories = 2660 /\ NoGoal(user_profile)) =>
        /\ IsOk(ret)
        /\ ret.v.protein_g = 166
        /\ ret.v.carbs_g = 333
        /\ ret.v.fat_g = 74

\* C16 with the carbohydrate value corrected: _calculate_macros on 2660 kcal
\* with no goal returns protein_g = 166, carbs_g = 332 and fat_g = 74, for
\* round(332.5) is 332
C16_GramsOf2660Are332 ==
    (call = "_calculate_macros" /\ daily_calories = 2660 /\ NoGoal(user_profile)) =>
        /\ IsOk(ret)
        /\ ret.v.protein_g = 166
        /\ ret.v.carbs_g = 332
        /\ ret.v.fat_g = 74

\* 2660 kcal and a profile without goals: the default 25/50/25 split
C16_Witness ==
    /\ call = "_calculate_macros"
    /\ daily_calories = 2660
    /\ ~Has(user_profile, "goals")
    /\ IsOk(ret)
    /\ ret.v.protein_pct = FromInt(25) /\ ret.v.carbs_pct = FromInt(50)
    /\ ret.v.carbs_g = 332

\* the grams of a nutrient in all logs, which hold whole numbers
RECURSIVE GramsLogged(_, _)
GramsLogged(logs, nutrient) ==
    IF logs = <<>> THEN 0
    ELSE PyInt(Head(logs)[nutrient]) + GramsLogged(Tail(logs), nutrient)

\* the calories of each macro and of the three together, in exact arithmetic
MacroCalories(logs) ==
    [protein |-> 4 * GramsLogged(logs, "protein"),
     carbs   |-> 4 * GramsLogged(logs, "carbs"),
     fat     |-> 9 * GramsLogged(logs, "fat"),
     total   |-> 4 * GramsLogged(logs, "protein") + 4 * GramsLogged(logs, "carbs")
                 + 9 * GramsLogged(logs, "fat")]

\* lo <= 100 * part / total <= hi
InBand(part, total, lo, hi) == lo * total <= 100 * part /\ 100 * part <= hi * total

\* protein within [15, 35], carbs within [30, 65], fat within [15, 40] percent
WithinBands(kcal) ==
    /\ kcal.total > 0
    /\ InBand(kcal.protein, kcal.total, 15, 35)
    /\ InBand(kcal.carbs, kcal.total, 30, 65)
    /\ InBand(kcal.fat, kcal.total, 15, 40)

NoMacroInsight(report) ==
    \A i \in DOMAIN report.insights :
        report.insights[i].category \notin {"protein", "carbs", "fat"}

\* logs of one calendar day that sum to 100 g protein, 300 g carbs, 50 g fat
IsExampleDay(logs) ==
    /\ Cardinality({logs[i].logged_at : i \in DOMAIN logs}) = 1
    /\ GramsLogged(logs, "protein") = 100
    /\ GramsLogged(logs, "carbs") = 300
    /\ GramsLogged(logs, "fat") = 50

\* C17: for logs of one day that sum to protein 100 g, carbs 300 g, fat 50 g
\* get_nutrition_insights reports 19.5, 58.5 and 22.0 percent and no protein,
\* carbs or fat insight; and no macro insight fires whenever protein is within
\* [15, 35], carbs within [30, 65] and fat within [15, 40] percent
C17_NormalBandsFireNothing ==
    ReportReturned =>
        /\ IsExampleDay(user_food_logs) =>
               /\ ret.v.macronutrient_ratios.protein_percentage = Dec(195, 10)
               /\ ret.v.macronutrient_ratios.carbs_percentage = Dec(585, 10)
               /\ ret.v.macronutrient_ratios.fat_percentage = FromInt(22)
               /\ NoMacroInsight(ret.v)
        /\ WithinBands(MacroCalories(user_food_logs)) => NoMacroInsight(ret.v)

\* the example day, logged as two meals
C17_Witness ==
    /\ ReportReturned
    /\ user_food_logs = <<ExampleLunch, ExampleDinner>>
    /\ IsExampleDay(user_food_logs)
    /\ ret.v.macronutrient_ratios.carbs_percentage = Dec(585, 10)
    /\ NoMacroInsight(ret.v)

\* C18: for every user, the daily calorie target the body of GET
\* /meal-plan/generate computes from the users row the request loaded equals
\* what _calculate_daily_calories returns for the profile dict of that row:
\* same default base, same weight-loss factor, same truncation
C18_HandlerTargetIsRecommenders ==
    \A r \in DOMAIN inflight :
        (/\ inflight[r].op = "GET /meal-plan/generate"
         /\ inflight[r].pc \in {"committed", "answered"}) =>
            _calculate_daily_calories(user_dict(inflight[r].user))
                = Ok(daily_calories)

\* C19: generate_meal_plan and get_nutrition_insights leave the catalog, the
\* profile dict and the log list every caller holds as they were before the
\* first call, so in any interleaving of calls for different users each call
\* returns what it would return alone on the untouched catalog, profile and
\* logs with its own random choices
CallsDoNotInterfere ==
    /\ food_database' = Val(SessionCatalog)
    /\ callers' = SessionUsers
    /\ \E u \in DOMAIN SessionUsers :
           /\ user_profile' = SessionUsers[u].profile
           /\ user_food_logs' = SessionUsers[u].logs
           /\ call' = "generate_meal_plan" =>
                  /\ days' = SessionUsers[u].days
                  /\ ret' = generate_meal_plan(Val(SessionCatalog),
                                               SessionUsers[u].profile,
                                               SessionUsers[u].days, rng')
           /\ call' = "get_nutrition_insights" =>
                  ret' = get_nutrition_insights(SessionUsers[u].logs,
                                                SessionUsers[u].profile)

C19_CallsDoNotInterfere == [][CallsDoNotInterfere]_vars

\* the meat eater's plan, asked for after the vegetarian's, still has a meat
\* dish in it
C19_Witness ==
    /\ Len(served) = 2
    /\ served[1].op = "generate_meal_plan"
    /\ IsVegetarian(served[1].profile.dietary_preferences)
    /\ call = "generate_meal_plan"
    /\ ~IsVegetarian(user_profile.dietary_preferences)
    /\ ret.kind = "dict"
    /\ \E name \in MealNames(ret) : NamesMeat(name)
    /\ food_database = Val(SessionCatalog)
    /\ callers = SessionUsers

\* weight, height, age and gender are present; activity_level is a missing
\* key or None
OnlyActivityIsAbsent(profile) ==
    /\ \A key \in {"weight", "height", "age", "gender"} : profile[key].k = "val"
    /\ profile.activity_level.k \in {"absent", "None"}

\* the Mifflin-St Jeor base times 1.55, truncated, in exact arithmetic
DefaultFactorEstimate(profile) ==
    LET s == IF Lower(profile.gender.v) = "male" THEN 5 ELSE -161
        base4 == 40 * PyInt(profile.weight.v) + 25 * PyInt(profile.height.v)
                 - 20 * profile.age.v + 4 * s
    IN  TruncDiv(base4 * 1550, 4000)

\* C20: a profile with weight, height, age and gender present and the
\* activity level absent, as a missing key or as None, gets the Mifflin-St Jeor
\* base times the default factor 1.55, not the fixed default base
C20_AbsentActivityUsesDefaultFactor ==
    (call = "_calculate_daily_calories" /\ OnlyActivityIsAbsent(user_profile)
         /\ ~Has(user_profile, "goals")) =>
        /\ ret = Ok(DefaultFactorEstimate(user_profile))
        /\ ret # Ok(DefaultBaseCalories)

\* weight, height, age or gender is a missing key or None
SomeBodyFieldIsAbsent(profile) ==
    \E key \in {"weight", "height", "age", "gender"} : profile[key].k # "val"

\* the goal factor in hundredths: the deficit, the surplus, or none
GoalHundredths(goals) ==
    IF goals.k # "val" THEN 100
    ELSE IF Contains(Lower(goals.v), "weight_loss") THEN 85
    ELSE IF Contains(Lower(goals.v), "weight_gain") THEN 115
    ELSE 100

\* the default base times the activity factor and the goal factor, truncated
ScaledDefault(profile) ==
    TruncDiv(DefaultBaseCalories
                 * (IF profile.activity_level.k = "val"
                    THEN FactorThousandths(profile.activity_level.v) ELSE 1550)
                 * GoalHundredths(profile.goals),
             100000)

\* C21: when weight, height, age or gender is absent, _calculate_daily_calories
\* returns the fixed default base times the activity factor (1.55 if unknown
\* or absent) with the goal adjustment applied, truncated; the default base is
\* never returned unscaled
C21_DefaultBaseIsScaled ==
    (call = "_calculate_daily_calories" /\ SomeBodyFieldIsAbsent(user_profile)) =>
        ret = Ok(ScaledDefault(user_profile))

\* both targets of a profile with a goal text were computed
TargetsComputed ==
    /\ Len(served) = 2
    /\ call = "_calculate_macros"
    /\ IsOk(ret)
    /\ user_profile.goals.k = "val"

\* the returned percentages, to the nearest whole number
SplitIs(macros, protein, carbs, fat) ==
    /\ PyRound(macros.protein_pct) = protein
    /\ PyRound(macros.carbs_pct) = carbs
    /\ PyRound(macros.fat_pct) = fat

\* the Mifflin-St Jeor base times the activity factor times hundredths / 100,
\* truncated, in exact arithmetic
AdjustedEstimate(profile, hundredths) ==
    LET s == IF Lower(profile.gender.v) = "male" THEN 5 ELSE -161
        base4 == 40 * PyInt(profile.weight.v) + 25 * PyInt(profile.height.v)
                 - 20 * profile.age.v + 4 * s
    IN  TruncDiv(base4 * FactorThousandths(profile.activity_level.v) * hundredths,
                 400000)

\* C22: goal matching is first-match in a fixed order in both functions: a
\* text containing weight_loss, in any letter case and whatever else it
\* contains, gets only the deficit factor and the 30/40/30 split; one with
\* weight_gain and no weight_loss the surplus and 25/55/20, muscle_gain or not;
\* a text matching none keeps the unadjusted calories and the 25/50/25 split
C22_FirstGoalMatchWins ==
    TargetsComputed =>
        LET goals == Lower(user_profile.goals.v)
            loss == Contains(goals, "weight_loss")
            gain == Contains(goals, "weight_gain")
            muscle == Contains(goals, "muscle_gain")
        IN  /\ loss =>
                   /\ daily_calories = AdjustedEstimate(user_profile, 85)
                   /\ SplitIs(ret.v, 30, 40, 30)
            /\ (~loss /\ gain) =>
                   /\ daily_calories = AdjustedEstimate(user_profile, 115)
                   /\ SplitIs(ret.v, 25, 55, 20)
            /\ (~loss /\ ~gain /\ ~muscle) =>
                   /\ daily_calories = AdjustedEstimate(user_profile, 100)
                   /\ SplitIs(ret.v, 25, 50, 25)

\* a goal text that names weight_gain first and weight_loss second
C22_Witness ==
    /\ TargetsComputed
    /\ user_profile.goals = Val("weight_gain weight_loss")
    /\ daily_calories = AdjustedEstimate(user_profile, 85)
    /\ daily_calories < AdjustedEstimate(user_profile, 100)
    /\ SplitIs(ret.v, 30, 40, 30)

\* the daily calorie target of the plan that was returned
DailyTarget == _calculate_daily_calories(user_profile).v

\* the day plans of the plan that was returned
DayPlans == [i \in DOMAIN ReturnedPlan.items |-> ReturnedPlan.items[i].plan]

\* every record of the catalog has at least one calorie per serving
CatalogIsPositive ==
    \A i \in DOMAIN food_database.v :
        FLe(FromInt(1), food_database.v[i].calories)

\* int(total_calories * hundredths / 100), in exact arithmetic
ShareOf(total_calories, hundredths) == TruncDiv(total_calories * hundredths, 100)

\* the share table the specification gives _generate_day_plan, in hundredths
StatedShares == <<25, 30, 30, 15>>

\* C23: _generate_day_plan builds exactly four meals in the order breakfast,
\* lunch, dinner, snack, whose calorie targets are 0.25, 0.30, 0.30 and 0.15 of
\* the daily target: with records of at least one calorie each entry is, to
\* the calorie, its meal's share of the target
C23_StatedMealShares ==
    (PlanReturned /\ CatalogIsPositive /\ DailyTarget >= 0) =>
        \A i \in DOMAIN DayPlans :
            /\ [j \in DOMAIN DayPlans[i].meals |-> DayPlans[i].meals[j].type]
                   = <<"breakfast", "lunch", "dinner", "snack">>
            /\ \A j \in 1..4 :
                   Abs(DayPlans[i].meals[j].calories
                       - ShareOf(DailyTarget, StatedShares[j])) <= 1

\* the record of the catalog a meal entry was made of
RecordNamed(name) ==
    food_database.v[CHOOSE i \in DOMAIN food_database.v :
                        food_database.v[i].label = name]

\* C24: a meal entry is one record scaled by meal_calories / max(calories, 1):
\* made of a record of at least one calorie its calories equal the meal's
\* calorie target, made of a record of no calories they are 0
C24_EntryCaloriesAreTheTarget ==
    PlanReturned =>
        \A i \in DOMAIN DayPlans : \A j \in 1..4 :
            LET entry == DayPlans[i].meals[j]
                record == RecordNamed(entry.name)
            IN  IF FLe(FromInt(1), record.calories)
                THEN entry.calories
                         = MealCalories(DailyTarget, meal_distribution[j].percentage)
                ELSE record.calories = FZero => entry.calories = 0

\* the catalog holds no record of negative calories
CatalogHasNoNegative ==
    \A i \in DOMAIN food_database.v : FLe(FZero, food_database.v[i].calories)

\* C27: in every day plan totalCalories is the sum of the calories of the four
\* entries and is at most the daily calorie target, for every target >= 0 and
\* every catalog of records with calories >= 0
C27_TotalWithinTarget ==
    (PlanReturned /\ DailyTarget >= 0 /\ CatalogHasNoNegative) =>
        \A i \in DOMAIN DayPlans :
            /\ DayPlans[i].totalCalories
                   = DayPlans[i].meals[1].calories + DayPlans[i].meals[2].calories
                     + DayPlans[i].meals[3].calories + DayPlans[i].meals[4].calories
            /\ DayPlans[i].totalCalories <= DailyTarget

\* a plan for a positive target from a catalog with a record of no calories:
\* a day with that record as one of its meals stays below the target
C27_Witness ==
    /\ PlanReturned
    /\ DailyTarget > 0
    /\ CatalogHasNoNegative
    /\ food_database = Val(<<Tofu, HerbalTea, ChickenRice>>)
    /\ \E i \in DOMAIN DayPlans :
           /\ \E j \in DOMAIN DayPlans[i].meals :
                  DayPlans[i].meals[j].name = "Herbal Tea"
           /\ DayPlans[i].totalCalories > 0
           /\ DayPlans[i].totalCalories < DailyTarget

\* the place of a category in the order the rules are written in
CategoryRank(category) ==
    CASE category = "protein" -> 1
      [] category = "carbs" -> 2
      [] category = "fat" -> 3
      [] category = "fiber" -> 4
      [] category = "sugar" -> 5
      [] category = "calories" -> 6
      [] OTHER -> 0

HasInsight(report, category) ==
    \E i \in DOMAIN report.insights : report.insights[i].category = category

\* the grams of fiber or sugar in all logs, a null entry counting as 0
RECURSIVE OptionalGramsLogged(_, _)
OptionalGramsLogged(logs, nutrient) ==
    IF logs = <<>> THEN 0
    ELSE PyInt(OrZero(Head(logs)[nutrient]))
         + OptionalGramsLogged(Tail(logs), nutrient)

\* part is below lo percent or above hi percent of total; of no calories at
\* all every percentage is 0
OutOfBand(part, total, lo, hi) ==
    IF total > 0 THEN 100 * part < lo * total \/ 100 * part > hi * total
    ELSE lo > 0

\* C25: for non-empty logs the insight list holds at most one insight per
\* category, the categories in the order protein, carbs, fat, fiber, sugar,
\* calories, and each of the rules of protein, carbs, fat, fiber and sugar
\* fires on its own percentage or average alone, whatever the others do
C25_OneInsightPerCategoryInOrder ==
    (InsightsReported /\ user_food_logs # <<>>) =>
        LET insights == TheReport.insights
            kcal == MacroCalories(user_food_logs)
            n == LoggedDays(user_food_logs)
        IN  /\ \A i \in DOMAIN insights : CategoryRank(insights[i].category) > 0
            /\ \A i, j \in DOMAIN insights :
                   i < j => CategoryRank(insights[i].category)
                                < CategoryRank(insights[j].category)
            /\ HasInsight(TheReport, "protein")
                   <=> OutOfBand(kcal.protein, kcal.total, 15, 35)
            /\ HasInsight(TheReport, "carbs")
                   <=> OutOfBand(kcal.carbs, kcal.total, 30, 65)
            /\ HasInsight(TheReport, "fat")
                   <=> OutOfBand(kcal.fat, kcal.total, 15, 40)
            /\ HasInsight(TheReport, "fiber")
                   <=> OptionalGramsLogged(user_food_logs, "fiber") < 25 * n
            /\ HasInsight(TheReport, "sugar")
                   <=> OptionalGramsLogged(user_food_logs, "sugar") > 50 * n

\* two days whose fiber rule fires while no macro rule and no sugar rule does
C25_Witness ==
    /\ ReportReturned
    /\ user_food_logs = <<BalancedDay, MeatDay>>
    /\ HasInsight(ret.v, "fiber")
    /\ ~HasInsight(ret.v, "protein")
    /\ ~HasInsight(ret.v, "carbs")
    /\ ~HasInsight(ret.v, "fat")
    /\ ~HasInsight(ret.v, "sugar")

\* no entry of the profile is None
NoNullEntry(profile) == \A key \in DOMAIN profile : profile[key].k # "None"

FourArePresent(profile) ==
    \A key \in {"weight", "height", "age", "gender"} : Has(profile, key)

\* the Mifflin-St Jeor base times the activity factor (1.55 for an unknown or
\* absent level) times the goal factor, truncated, in exact arithmetic
MifflinEstimate(profile) ==
    LET s == IF Lower(profile.gender.v) = "male" THEN 5 ELSE -161
        base4 == 40 * PyInt(profile.weight.v) + 25 * PyInt(profile.height.v)
                 - 20 * profile.age.v + 4 * s
    IN  TruncDiv(base4
                     * (IF profile.activity_level.k = "val"
                        THEN FactorThousandths(profile.activity_level.v) ELSE 1550)
                     * GoalHundredths(profile.goals),
                 400000)

\* the priority of the calories insight of a report, "none" without one
CaloriesPriority(report) ==
    IF HasInsight(report, "calories")
    THEN report.insights[CHOOSE i \in DOMAIN report.insights :
                             report.insights[i].category = "calories"].priority
    ELSE "none"

\* the priority the rule gives an average of total / n against an estimate
PriorityAgainst(total, n, estimate) ==
    IF 10 * total < 7 * estimate * n THEN "high"
    ELSE IF 10 * total > 13 * estimate * n THEN "medium"
    ELSE "none"

\* C26: for a profile with weight, height, age and gender, get_nutrition_insights
\* compares the average calories with the Mifflin-St Jeor based estimate: a
\* calories insight of high priority iff the average is below 70% of it, of
\* medium priority iff above 130%, none otherwise; with any of the four absent
\* there is no calories insight
C26_CaloriesAgainstMifflin ==
    (/\ call = "get_nutrition_insights"
     /\ user_food_logs # <<>>
     /\ NoNullEntry(user_profile)) =>
        /\ IsOk(ret)
        /\ IF FourArePresent(user_profile)
           THEN CaloriesPriority(ret.v)
                    = PriorityAgainst(GramsLogged(user_food_logs, "calories"),
                                      LoggedDays(user_food_logs),
                                      MifflinEstimate(user_profile))
           ELSE CaloriesPriority(ret.v) = "none"

\* every item is of the protein list or of a carbs list
OnlyProteinAndCarbs(recommendations, profile) ==
    \A i \in DOMAIN recommendations :
        \/ InList(recommendations[i], ProteinFoods(profile))
        \/ InList(recommendations[i], IncreaseList("carbs"))
        \/ InList(recommendations[i], ReduceList("carbs"))

\* no item of the list is among the recommendations
Lacks(recommendations, list) ==
    \A i \in DOMAIN list : ~InList(list[i], recommendations)

\* C28: the recommendations are concatenated in the order protein, carbs, fat,
\* fiber, sugar and cut to the first 10, so whenever a protein and a carbs
\* insight both fire the returned list has only protein and carbs items, and
\* none of fat, fiber or sugar even when the sugar insight is of high priority
C28_ProteinAndCarbsFillTheList ==
    (/\ InsightsReported
     /\ HasInsight(TheReport, "protein")
     /\ HasInsight(TheReport, "carbs")) =>
        /\ OnlyProteinAndCarbs(TheReport.food_recommendations, user_profile)
        /\ Lacks(TheReport.food_recommendations, SugarFoods)
        /\ Lacks(TheReport.food_recommendations, FiberFoods)
        /\ Lacks(TheReport.food_recommendations, IncreaseList("fat"))
        /\ Lacks(TheReport.food_recommendations, ReduceList("fat"))

\* protein, carbs and the high-priority sugar insight fired together
C28_Witness ==
    /\ ReportReturned
    /\ user_food_logs = <<SweetDay>>
    /\ HasInsight(ret.v, "protein")
    /\ HasInsight(ret.v, "carbs")
    /\ \E i \in DOMAIN ret.v.insights :
           ret.v.insights[i].category = "sugar" /\ ret.v.insights[i].priority = "high"
    /\ Len(ret.v.food_recommendations) = 10
    /\ ret.v.food_recommendations[6] = "Oatmeal (complex carbs with fiber)"

\* the table the request answered last is about, before and after the request
TableOf(op, plans, logs, goals) ==
    IF Contains(op, "/meal-plan/") THEN plans
    ELSE IF Contains(op, "/food/log") THEN logs
    ELSE goals

\* the rows of before that are not, as they were, in after
Touched(before, after) ==
    {before[i] : i \in {j \in DOMAIN before : ~InList(before[j], after)}}

\* one request: its user is current_user', its path parameter path_id'
OnlyTheOwnerActs ==
    LET user_id == current_user'.id
        before == TableOf(call', meal_plans, food_logs, user_goals)
    IN  /\ \A row \in Touched(meal_plans, meal_plans')
                      \cup Touched(food_logs, food_logs')
                      \cup Touched(user_goals, user_goals') :
               row.user_id = user_id
        /\ (ret' # NoRet /\ ret'.status = 200) => ret'.body.user_id = user_id
        /\ (/\ path_id' # 0
            /\ \E i \in DOMAIN before :
                   before[i].id = path_id' /\ before[i].user_id # user_id) =>
               /\ ret' # NoRet
               /\ ret'.status = 404
               /\ UNCHANGED <<meal_plans, food_logs, user_goals>>

\* C29: after any sequence of create, read, update and delete requests by
\* several users, a meal plan, a food log or a goal is returned to, updated by
\* or deleted by only the user who created it; the request of any other user
\* gets a not-found error and leaves the row as it was
C29_OnlyTheOwnerActs == [][OnlyTheOwnerActs]_vars

\* the rows of food_items with the barcode
RowsWith(barcode) ==
    {i \in DOMAIN food_items : food_items[i].barcode = Val(barcode)}

\* C30: in any interleaving of GET /food/barcode/{b} requests for the same
\* barcode b, every request that completes has returned a food item with
\* barcode b, and food_items never holds more than one row with barcode b
C30_EveryLookupReturnsTheItem ==
    /\ \A r \in DOMAIN inflight :
           (/\ inflight[r].op = "GET /food/barcode/{barcode}"
            /\ inflight[r].pc = "answered") =>
               /\ inflight[r].response.status = 200
               /\ inflight[r].response.body.barcode = Val(inflight[r].barcode)
    /\ \A b \in Barcodes : Cardinality(RowsWith(b)) <= 1

=============================================================================
